---- MODULE Spec2Model ----
(***************************************************************************)
(* Model of the artifact ingestion and filesystem-boundary layer of the    *)
(* ComfyUI run viewer: src/lib/comfyui-fs.ts, src/lib/comfyui-path.ts,     *)
(* src/lib/comfyui-types.ts and the request handlers built on them.        *)
(*                                                                         *)
(* Text is modelled as a sequence of one-character strings, so that        *)
(* trimming, splitting, formatting and pattern matching are computed.      *)
(***************************************************************************)
EXTENDS Integers, Sequences, FiniteSets, TLC

VARIABLES
    \* ---- event log reader / grid assembler (comfyui-fs.ts) ----
    sel,        \* runDetail.selection: [x_indexes, y_indexes]
    log,        \* the lines of metadata.jsonl, in file order
    pos,        \* index of the next line the parse loop reads
    cells,      \* the Map<GridCellKey, GridCell> being filled
    grid,       \* the GridIndex returned by buildGridIndex
    first,      \* the GridIndex an earlier loadRunGridIndex of the run returned
    gpc,        \* position of the ingestion: "parse", "build", "done", "idle"
    \* ---- path sanitizer / root-scoped resolver (comfyui-path.ts) ----
    platform,   \* process.platform: "linux" or "win32"
    relPath,    \* the candidate relative path
    root,       \* the root handed to resolvePathUnderRoot
    sanitized,  \* what assertSafeRelativeImagePath(relPath) did
    resolved,   \* what resolvePathUnderRoot(root, relPath) did
    ppc,        \* "start", "sanitized", "resolved", "idle"
    \* ---- storage and one request (route handlers) ----
    fsRoot,     \* the storage root: "dir", "absent" or "error" (unreadable)
    fsEntries,  \* what each name under the storage root is
    req,        \* the request: [kind, runDir, imagePath]
    rpc,        \* position of the handler
    dirents,    \* the names readdir returned, in its order
    statRes,    \* per candidate: "pending", "yes", "no" (containsRunJson)
    settled,    \* the candidates in the order their checks completed
    allow,      \* the list discoverRunDirs returned
    safeRunDir, \* what assertAllowedRunDir returned
    built,      \* the paths built from the caller's identifier
    ops,        \* the filesystem calls made so far
    resp,       \* the response: [status, body, at]
    \* ---- preview dialog of the grid widget (virtual-grid.tsx) ----
    dialogOpen,         \* useState(false)
    selectedCell,       \* useState<SelectedCellPreview | null>(null)
    currentImageIndex,  \* useState(0)
    copiedField,        \* "prompt", "seed" or "none" (null)
    copying,            \* the clipboard writes that have not settled
    \* ---- run detail page (app/runs/[runDir]/page.tsx) ----
    param,      \* the runDir of the route, "" when there is none
    loadState,  \* "loading", "ready", "not-found", "error"
    detailData, \* the run whose detail payload is held, or "null"
    gridData,   \* the run whose grid payload is held, or "null"
    fetchNow,   \* fetchRunDetail of the current effect
    fetchOld,   \* fetchRunDetail of the effect that was cleaned up
    \* ---- a writer appending to metadata.jsonl during a load ----
    wrote,      \* the number of complete lines in the file
    partial,    \* what is in the file of the next line: "none", "cut", "whole"
    took,       \* the number of complete lines in what readFile returned
    \* ---- run descriptor loader (comfyui-fs.ts) ----
    raw,        \* the content of run.json as read
    detail,     \* what loadRunDetail did with it
    dpc         \* "start", "done", "idle"

gridVars == <<sel, log, pos, cells, grid, first, gpc>>
pathVars == <<platform, relPath, root, sanitized, resolved, ppc>>
reqVars == <<fsRoot, fsEntries, req, rpc, dirents, statRes, settled, allow, safeRunDir, built,
             ops, resp>>
descVars == <<raw, detail, dpc>>
widgetVars == <<dialogOpen, selectedCell, currentImageIndex, copiedField, copying>>
pageVars == <<param, loadState, detailData, gridData, fetchNow, fetchOld>>
appendVars == <<wrote, partial, took>>
viewVars == <<widgetVars, pageVars, appendVars>>
vars == <<gridVars, pathVars, reqVars, descVars, viewVars>>

(***************************************************************************)
(* Bounds of the model.                                                    *)
(***************************************************************************)
MaxLogLines == 3
MaxGridLines == 2
MaxIdx == 2
MaxPathLen == 3
MaxAppendLines == 2

(***************************************************************************)
(* Small helpers on sequences.                                             *)
(***************************************************************************)
Range(s) == {s[i] : i \in DOMAIN s}

SeqsUpTo(S, n) == UNION {[1..k -> S] : k \in 0..n}

Min(a, b) == IF a < b THEN a ELSE b

RemoveAt(s, p) == [i \in 1..(Len(s) - 1) |-> IF i < p THEN s[i] ELSE s[i + 1]]

(***************************************************************************)
(* JSON values as JSON.parse yields them.  t is the JavaScript type:       *)
(* "undefined" (key absent), "null", "boolean", "int" (a number that       *)
(* Number.isInteger accepts), "fraction" (any other finite number),        *)
(* "infinity" (1e400 parses to Infinity), "string", "array", "object".     *)
(* n is the value of an int, s the characters of a string, a the items of  *)
(* an array.                                                               *)
(***************************************************************************)
Absent == [t |-> "undefined", n |-> 0, s |-> <<>>, a |-> <<>>]
Null == [t |-> "null", n |-> 0, s |-> <<>>, a |-> <<>>]
JTrue == [t |-> "boolean", n |-> 1, s |-> <<>>, a |-> <<>>]
Num(n) == [t |-> "int", n |-> n, s |-> <<>>, a |-> <<>>]
Fraction(n) == [t |-> "fraction", n |-> n, s |-> <<>>, a |-> <<>>]
Infinity == [t |-> "infinity", n |-> 0, s |-> <<>>, a |-> <<>>]
Str(s) == [t |-> "string", n |-> 0, s |-> s, a |-> <<>>]
Arr(a) == [t |-> "array", n |-> 0, s |-> <<>>, a |-> a]
OpaqueObject == [t |-> "object", n |-> 0, s |-> <<>>, a |-> <<>>]

IsNumber(v) == v.t \in {"int", "fraction", "infinity"}

\* value ?? fallback
Coalesce(v, d) == IF v.t \in {"undefined", "null"} THEN d ELSE v

(***************************************************************************)
(* Number formatting of a template literal `${n}` for integers.            *)
(***************************************************************************)
Digit(d) ==
    CASE d = 0 -> "0" [] d = 1 -> "1" [] d = 2 -> "2" [] d = 3 -> "3"
      [] d = 4 -> "4" [] d = 5 -> "5" [] d = 6 -> "6" [] d = 7 -> "7"
      [] d = 8 -> "8" [] d = 9 -> "9"

RECURSIVE NatToStr(_)
NatToStr(n) ==
    IF n < 10 THEN <<Digit(n)>> ELSE NatToStr(n \div 10) \o <<Digit(n % 10)>>

NumToStr(n) == IF n < 0 THEN <<"-">> \o NatToStr(0 - n) ELSE NatToStr(n)

(***************************************************************************)
(* String.prototype.trim on the modelled alphabet: blanks are " " and the  *)
(* tab "\t".                                                               *)
(***************************************************************************)
IsBlankChar(c) == c \in {" ", "\t"}

RECURSIVE TrimLeft(_)
TrimLeft(s) ==
    IF s = <<>> THEN <<>>
    ELSE IF IsBlankChar(Head(s)) THEN TrimLeft(Tail(s)) ELSE s

RECURSIVE TrimRight(_)
TrimRight(s) ==
    IF s = <<>> THEN <<>>
    ELSE IF IsBlankChar(s[Len(s)]) THEN TrimRight(SubSeq(s, 1, Len(s) - 1)) ELSE s

Trim(s) == TrimRight(TrimLeft(s))

(***************************************************************************)
(* comfyui-fs.ts: field coercions.                                         *)
(***************************************************************************)
toNullableString(v) == IF v.t = "string" THEN v ELSE Null

toNullableNumber(v) == IF v.t \in {"int", "fraction"} THEN v ELSE Null

toNullableInteger(v) == IF v.t = "int" THEN v ELSE Null

\* Array.filter keeps the non-empty strings; an empty result is null.
RECURSIVE FilterNonEmptyStrings(_)
FilterNonEmptyStrings(a) ==
    IF a = <<>> THEN <<>>
    ELSE IF Head(a).t = "string" /\ Len(Head(a).s) > 0
         THEN <<Head(a)>> \o FilterNonEmptyStrings(Tail(a))
         ELSE FilterNonEmptyStrings(Tail(a))

toStringArray(v) ==
    IF v.t # "array" THEN Null
    ELSE LET values == FilterNonEmptyStrings(v.a)
         IN IF Len(values) > 0 THEN Arr(values) ELSE Null

toCellKey(xIndex, yIndex) == NumToStr(xIndex) \o <<",">> \o NumToStr(yIndex)

(***************************************************************************)
(* comfyui-types.ts: the cell statuses.                                    *)
(***************************************************************************)
StSuccess == <<"s", "u", "c", "c", "e", "s", "s">>
StFailed == <<"f", "a", "i", "l", "e", "d">>
StSkipped == <<"s", "k", "i", "p", "p", "e", "d">>
StMissing == <<"m", "i", "s", "s", "i", "n", "g">>
StBogus == <<"b", "o", "g", "u", "s">>

isCellStatus(status) == status \in {StSuccess, StFailed, StSkipped, StMissing}

\* normalizeCellStatus as it would be if its fallback were the placeholder status.
normalizeCellStatusAsMissing(v) ==
    IF v.t = "string" /\ isCellStatus(v.s) THEN v.s ELSE StMissing

normalizeCellStatus(v) ==
    IF v.t = "string" /\ isCellStatus(v.s) THEN v.s ELSE StFailed

X_FIELDS_ORDER == <<"quality", "rating", "gender", "characters", "series", "general">>
XKeys == Range(X_FIELDS_ORDER)

GenKeys == {"seed", "negative_prompt", "width", "height", "batch_size", "steps",
            "cfg", "denoise", "sampler_name", "scheduler"}
GenNumberKeys == {"seed", "width", "height", "batch_size", "steps", "cfg", "denoise"}

\* A raw nested object: obj says isJsonObject(value), f holds its keys.
NoObject(keys) == [obj |-> FALSE, f |-> [k \in keys |-> Absent]]

normalizeXFields(v) ==
    IF ~v.obj THEN [k \in XKeys |-> Absent]
    ELSE [k \in XKeys |-> IF v.f[k].t = "string" THEN v.f[k] ELSE Absent]

normalizeGenerationParams(v) ==
    IF ~v.obj THEN NoObject(GenKeys)
    ELSE [obj |-> TRUE,
          f |-> [k \in GenKeys |->
                    IF k \in GenNumberKeys THEN toNullableNumber(v.f[k])
                    ELSE toNullableString(v.f[k])]]

\* The result of normalizeGridCell when the coordinates are not integers.
NoCell == [none |-> TRUE]

normalizeGridCell(record) ==
    LET xIndex == toNullableInteger(record.x_index)
        yIndex == toNullableInteger(record.y_index)
        localImagePath == toNullableString(record.local_image_path)
        imagePaths == toStringArray(record.local_image_paths)
        \* localImagePath ? [localImagePath] : null  (an empty string is falsy)
        mergedImagePaths ==
            IF imagePaths.t # "null" THEN imagePaths
            ELSE IF localImagePath.t = "string" /\ Len(localImagePath.s) > 0
                 THEN Arr(<<localImagePath>>)
                 ELSE Null
    IN IF xIndex.t = "null" \/ yIndex.t = "null" THEN NoCell
       ELSE [none |-> FALSE,
             status |-> normalizeCellStatus(record.status),
             x_index |-> xIndex.n,
             y_index |-> yIndex.n,
             x_fields |-> normalizeXFields(record.x_fields),
             y_value |-> toNullableString(record.y_value),
             positive_prompt |-> toNullableString(record.positive_prompt),
             prompt_hash |-> toNullableString(record.prompt_hash),
             seed |-> toNullableNumber(record.seed),
             generation_params |-> normalizeGenerationParams(record.generation_params),
             workflow_hash |-> toNullableString(record.workflow_hash),
             comfyui_prompt_id |-> toNullableString(record.comfyui_prompt_id),
             local_image_path |->
                 IF localImagePath.t # "null" THEN localImagePath
                 ELSE IF mergedImagePaths.t = "array" THEN mergedImagePaths.a[1]
                      ELSE Null,
             local_image_paths |-> mergedImagePaths,
             error |-> Coalesce(record.error, Null),
             started_at |-> toNullableString(record.started_at),
             finished_at |-> toNullableString(record.finished_at),
             elapsed_ms |-> toNullableNumber(record.elapsed_ms)]

\* createMissingCell as it would be if the placeholder took the fallback status
\* of normalizeCellStatus.
createMissingCellAsFailed(xIndex, yIndex) ==
    [none |-> FALSE, status |-> StFailed, x_index |-> xIndex, y_index |-> yIndex,
     x_fields |-> [k \in XKeys |-> Absent], y_value |-> Null,
     positive_prompt |-> Null, prompt_hash |-> Null, seed |-> Null,
     generation_params |-> NoObject(GenKeys), workflow_hash |-> Null,
     comfyui_prompt_id |-> Null, local_image_path |-> Null,
     local_image_paths |-> Null, error |-> Null, started_at |-> Null,
     finished_at |-> Null, elapsed_ms |-> Null]

createMissingCell(xIndex, yIndex) ==
    [none |-> FALSE,
     status |-> StMissing,
     x_index |-> xIndex,
     y_index |-> yIndex,
     x_fields |-> [k \in XKeys |-> Absent],
     y_value |-> Null,
     positive_prompt |-> Null,
     prompt_hash |-> Null,
     seed |-> Null,
     generation_params |-> NoObject(GenKeys),
     workflow_hash |-> Null,
     comfyui_prompt_id |-> Null,
     local_image_path |-> Null,
     local_image_paths |-> Null,
     error |-> Null,
     started_at |-> Null,
     finished_at |-> Null,
     elapsed_ms |-> Null]

(***************************************************************************)
(* The lines of metadata.jsonl.  A line is what its trimmed text is:       *)
(* "blank" (empty after trim), "garbage" (JSON.parse throws), "array",     *)
(* "scalar" and "nulllit" (valid JSON that is no object), or "object" with *)
(* the value of every key normalizeGridCell reads.                         *)
(***************************************************************************)
BodyEmpty ==
    [x_fields |-> NoObject(XKeys), y_value |-> Absent, positive_prompt |-> Absent,
     prompt_hash |-> Absent, seed |-> Absent, generation_params |-> NoObject(GenKeys),
     workflow_hash |-> Absent, comfyui_prompt_id |-> Absent,
     local_image_path |-> Absent, local_image_paths |-> Absent, error |-> Absent,
     started_at |-> Absent, finished_at |-> Absent, elapsed_ms |-> Absent]

BodyFull ==
    [x_fields |-> [obj |-> TRUE,
                   f |-> [k \in XKeys |->
                            CASE k = "quality" -> Str(<<" ", "h", "q">>)
                              [] k = "rating" -> Str(<<" ">>)
                              [] k = "gender" -> Num(1)
                              [] k = "series" -> Str(<<"s">>)
                              [] OTHER -> Absent]],
     y_value |-> Str(<<"a", "r", "t", " ">>),
     positive_prompt |-> Str(<<"p">>),
     prompt_hash |-> Str(<<"h">>),
     seed |-> Num(7),
     generation_params |-> [obj |-> TRUE,
                            f |-> [k \in GenKeys |->
                                     CASE k = "seed" -> Num(7)
                                       [] k = "cfg" -> Fraction(5)
                                       [] k = "width" -> Str(<<"w">>)
                                       [] k = "steps" -> Infinity
                                       [] k = "scheduler" -> Str(<<"k">>)
                                       [] OTHER -> Absent]],
     workflow_hash |-> Str(<<"w">>),
     comfyui_prompt_id |-> Str(<<"i">>),
     local_image_path |-> Absent,
     local_image_paths |-> Arr(<<Str(<<>>), Num(3), Str(<<"a", ".", "p", "n", "g">>),
                                 Str(<<"b", ".", "p", "n", "g">>)>>),
     error |-> Null,
     started_at |-> Str(<<"1">>),
     finished_at |-> Str(<<"2">>),
     elapsed_ms |-> Fraction(1)]

\* A record whose optional fields carry values of the wrong type.
BodyLoose ==
    [x_fields |-> NoObject(XKeys), y_value |-> Num(3), positive_prompt |-> Null,
     prompt_hash |-> JTrue, seed |-> Str(<<"7">>),
     generation_params |-> NoObject(GenKeys),
     workflow_hash |-> OpaqueObject, comfyui_prompt_id |-> Arr(<<>>),
     local_image_path |-> Str(<<"c", ".", "p", "n", "g">>),
     local_image_paths |-> Arr(<<Str(<<>>)>>),
     error |-> Str(<<"e">>),
     started_at |-> Num(1), finished_at |-> Absent, elapsed_ms |-> Infinity]

Line(kind, x, y, st, body) ==
    [kind |-> kind, x_index |-> x, y_index |-> y, status |-> st] @@ body

ObjLine(x, y, st, body) == Line("object", x, y, st, body)

BlankLine == Line("blank", Absent, Absent, Absent, BodyEmpty)
GarbageLine == Line("garbage", Absent, Absent, Absent, BodyEmpty)
ArrayLine == Line("array", Absent, Absent, Absent, BodyEmpty)
ScalarLine == Line("scalar", Absent, Absent, Absent, BodyEmpty)
NullLine == Line("nulllit", Absent, Absent, Absent, BodyEmpty)

\* The lines a log of the event-log specification is made of.
LogLines ==
    { ObjLine(Num(0), Num(0), Str(StSuccess), BodyFull),
      ObjLine(Num(0), Num(0), Str(StFailed), BodyLoose),
      ObjLine(Num(0), Num(0), Str(StMissing), BodyFull),
      ObjLine(Num(1), Num(0), Str(StBogus), BodyEmpty),
      ObjLine(Num(1), Num(0), Absent, BodyFull),
      ObjLine(Num(0), Num(1), Num(1), BodyLoose),
      ObjLine(Num(0 - 1), Num(10), Str(StSkipped), BodyEmpty),
      ObjLine(Absent, Num(0), Str(StSuccess), BodyFull),
      ObjLine(Num(0), Null, Str(StSuccess), BodyFull),
      ObjLine(Fraction(1), Num(0), Str(StSuccess), BodyEmpty),
      ObjLine(Str(<<"0">>), Num(0), Str(StSuccess), BodyEmpty),
      ObjLine(Num(1), Infinity, Str(StSuccess), BodyEmpty),
      BlankLine, GarbageLine, ArrayLine, ScalarLine, NullLine }

\* The lines a log of the grid specification is made of.
GridLines ==
    { ObjLine(Num(0), Num(0), Str(StSuccess), BodyFull),
      ObjLine(Num(0), Num(0), Str(StFailed), BodyLoose),
      ObjLine(Num(1), Num(0), Str(StSkipped), BodyLoose),
      ObjLine(Num(0), Num(1), Str(StSuccess), BodyFull),
      ObjLine(Num(1), Num(1), Str(StBogus), BodyEmpty),
      GarbageLine }

(***************************************************************************)
(* comfyui-fs.ts: parseJsonObject.                                         *)
(***************************************************************************)
JsonParses(line) == line.kind \in {"array", "scalar", "nulllit", "object"}

isJsonObject(line) == line.kind = "object"

\* null when JSON.parse throws or the value is no object.
parseJsonObject(line) == IF JsonParses(line) /\ isJsonObject(line) THEN line ELSE NoCell

(***************************************************************************)
(* A JavaScript Map / plain object with string keys that are no array      *)
(* indices: iteration follows the order of first insertion.                *)
(***************************************************************************)
EmptyMap == [keys |-> <<>>, at |-> <<>>]

MapHas(m, k) == k \in Range(m.keys)

MapSet(m, k, v) ==
    [keys |-> IF MapHas(m, k) THEN m.keys ELSE Append(m.keys, k),
     at |-> [i \in 1..(IF MapHas(m, k) THEN Len(m.keys) ELSE Len(m.keys) + 1) |->
                IF i <= Len(m.keys) /\ m.keys[i] # k THEN m.at[i] ELSE v]]

MapIndex(m, k) == CHOOSE i \in 1..Len(m.keys) : m.keys[i] = k

MapGet(m, k) == m.at[MapIndex(m, k)]

MapSize(m) == Len(m.keys)

(***************************************************************************)
(* comfyui-fs.ts: one iteration of the loop of parseMetadataJsonl.         *)
(***************************************************************************)
\* The loop body as it would be if an earlier record of a coordinate were kept.
ProcessLineKeepFirst(cs, line) ==
    IF line.kind = "blank" THEN cs
    ELSE LET parsed == parseJsonObject(line)
         IN IF parsed = NoCell THEN cs
            ELSE LET cell == normalizeGridCell(parsed)
                 IN IF cell = NoCell THEN cs
                    ELSE IF MapHas(cs, toCellKey(cell.x_index, cell.y_index)) THEN cs
                    ELSE MapSet(cs, toCellKey(cell.x_index, cell.y_index), cell)

\* The loop body as it would be if JSON.parse ran outside a try/catch: the
\* exception of a bad line discards what was read.
ProcessLineAbort(cs, line) ==
    IF line.kind = "blank" THEN cs
    ELSE IF ~JsonParses(line) THEN EmptyMap
    ELSE LET parsed == parseJsonObject(line)
         IN IF parsed = NoCell THEN cs
            ELSE LET cell == normalizeGridCell(parsed)
                 IN IF cell = NoCell THEN cs
                    ELSE MapSet(cs, toCellKey(cell.x_index, cell.y_index), cell)

ProcessLine(cs, line) ==
    IF line.kind = "blank" THEN cs
    ELSE LET parsed == parseJsonObject(line)
         IN IF parsed = NoCell THEN cs
            ELSE LET cell == normalizeGridCell(parsed)
                 IN IF cell = NoCell THEN cs
                    ELSE MapSet(cs, toCellKey(cell.x_index, cell.y_index), cell)

RECURSIVE ParseLines(_, _)
ParseLines(cs, lines) ==
    IF lines = <<>> THEN cs ELSE ParseLines(ProcessLine(cs, Head(lines)), Tail(lines))

(***************************************************************************)
(* comfyui-fs.ts: labels.                                                  *)
(***************************************************************************)
RECURSIVE JoinWithSpace(_)
JoinWithSpace(parts) ==
    IF parts = <<>> THEN <<>>
    ELSE IF Len(parts) = 1 THEN parts[1]
    ELSE parts[1] \o <<" ">> \o JoinWithSpace(Tail(parts))

\* X_FIELDS_ORDER.map((key) => cell.x_fields[key]?.trim()).filter(Boolean)
RECURSIVE TrimmedXValues(_, _)
TrimmedXValues(xFields, keys) ==
    IF keys = <<>> THEN <<>>
    ELSE LET item == xFields[Head(keys)]
             rest == TrimmedXValues(xFields, Tail(keys))
         IN IF item.t = "string" /\ Trim(item.s) # <<>>
            THEN <<Trim(item.s)>> \o rest
            ELSE rest

formatXLabel(cell, xIndex) ==
    IF cell = NoCell THEN <<"x">> \o NumToStr(xIndex)
    ELSE LET values == TrimmedXValues(cell.x_fields, X_FIELDS_ORDER)
         IN IF Len(values) > 0 THEN JoinWithSpace(values)
            ELSE <<"x">> \o NumToStr(xIndex)

formatYLabel(cell, yIndex) ==
    IF cell # NoCell /\ cell.y_value.t = "string" /\ Len(Trim(cell.y_value.s)) > 0
    THEN Trim(cell.y_value.s)
    ELSE <<"y">> \o NumToStr(yIndex)

(***************************************************************************)
(* comfyui-fs.ts: buildGridIndex.                                          *)
(***************************************************************************)
\* firstByX.get(x): the first cell in iteration order with that x_index.
FirstByX(cs, x) ==
    LET hits == {i \in 1..MapSize(cs) : cs.at[i].x_index = x}
    IN IF hits = {} THEN NoCell
       ELSE cs.at[CHOOSE i \in hits : \A j \in hits : i <= j]

FirstByY(cs, y) ==
    LET hits == {i \in 1..MapSize(cs) : cs.at[i].y_index = y}
    IN IF hits = {} THEN NoCell
       ELSE cs.at[CHOOSE i \in hits : \A j \in hits : i <= j]

\* The k-th coordinate of: for (yIndex of yIndexes) for (xIndex of xIndexes).
CoordAt(xIndexes, yIndexes, k) ==
    [x |-> xIndexes[((k - 1) % Len(xIndexes)) + 1],
     y |-> yIndexes[((k - 1) \div Len(xIndexes)) + 1]]

\* gridCells[key] = cells[key] ?? createMissingCell(xIndex, yIndex)
GridEntry(cs, xIndex, yIndex) ==
    LET key == toCellKey(xIndex, yIndex)
    IN IF MapHas(cs, key) THEN MapGet(cs, key) ELSE createMissingCell(xIndex, yIndex)

RECURSIVE FillGrid(_, _, _, _, _)
FillGrid(g, cs, xIndexes, yIndexes, k) ==
    IF k > Len(xIndexes) * Len(yIndexes) THEN g
    ELSE LET c == CoordAt(xIndexes, yIndexes, k)
         IN FillGrid(MapSet(g, toCellKey(c.x, c.y), GridEntry(cs, c.x, c.y)),
                     cs, xIndexes, yIndexes, k + 1)

buildGridIndex(selection, cs) ==
    LET xIndexes == selection.x_indexes
        yIndexes == selection.y_indexes
    IN [built |-> TRUE,
        xLabels |-> [i \in 1..Len(xIndexes) |->
                        formatXLabel(FirstByX(cs, xIndexes[i]), xIndexes[i])],
        yLabels |-> [i \in 1..Len(yIndexes) |->
                        formatYLabel(FirstByY(cs, yIndexes[i]), yIndexes[i])],
        x_count |-> Len(xIndexes),
        y_count |-> Len(yIndexes),
        cells |-> FillGrid(EmptyMap, cs, xIndexes, yIndexes, 1)]

NoGrid ==
    [built |-> FALSE, xLabels |-> <<>>, yLabels |-> <<>>, x_count |-> 0,
     y_count |-> 0, cells |-> EmptyMap]

(***************************************************************************)
(* Paths.  The characters of the model: a lower-case and an upper-case     *)
(* letter of each name used, ".", "/", "%", the backslash, ":", the blank  *)
(* and the null byte (written "NUL").                                      *)
(***************************************************************************)
Letters == {"a", "c", "r", "w", "A", "C", "R", "W"}

Lower(c) ==
    CASE c = "A" -> "a" [] c = "C" -> "c" [] c = "R" -> "r" [] c = "W" -> "w"
      [] OTHER -> c

\* String.prototype.toLowerCase
ToLowerCase(s) == [i \in 1..Len(s) |-> Lower(s[i])]

Includes(s, c) == \E i \in 1..Len(s) : s[i] = c

StartsWith(s, prefix) ==
    Len(s) >= Len(prefix) /\ SubSeq(s, 1, Len(prefix)) = prefix

EndsWith(s, suffix) ==
    Len(s) >= Len(suffix) /\ SubSeq(s, Len(s) - Len(suffix) + 1, Len(s)) = suffix

IncludesSeq(s, part) ==
    \E i \in 1..(Len(s) - Len(part) + 1) : SubSeq(s, i, i + Len(part) - 1) = part

\* String.prototype.split on a set of separator characters: always at least
\* one segment.
RECURSIVE SplitOn(_, _)
SplitOn(s, seps) ==
    IF \A i \in 1..Len(s) : s[i] \notin seps THEN <<s>>
    ELSE LET i == CHOOSE k \in 1..Len(s) :
                    s[k] \in seps /\ \A m \in 1..(k - 1) : s[m] \notin seps
         IN <<SubSeq(s, 1, i - 1)>> \o SplitOn(SubSeq(s, i + 1, Len(s)), seps)

RECURSIVE JoinWith(_, _)
JoinWith(parts, sep) ==
    IF parts = <<>> THEN <<>>
    ELSE IF Len(parts) = 1 THEN parts[1]
    ELSE parts[1] \o <<sep>> \o JoinWith(Tail(parts), sep)

DotDot == <<".", ".">>

\* node:path normalizeString: drops empty and "." segments, lets ".." remove
\* the segment before it, and keeps a leading ".." only when allowAboveRoot.
RECURSIVE NormalizeSegments(_, _, _)
NormalizeSegments(out, segs, allowAboveRoot) ==
    IF segs = <<>> THEN out
    ELSE LET seg == Head(segs)
             rest == Tail(segs)
         IN IF seg = <<>> \/ seg = <<".">>
            THEN NormalizeSegments(out, rest, allowAboveRoot)
            ELSE IF seg = DotDot
            THEN IF out # <<>> /\ out[Len(out)] # DotDot
                 THEN NormalizeSegments(SubSeq(out, 1, Len(out) - 1), rest, allowAboveRoot)
                 ELSE IF allowAboveRoot
                 THEN NormalizeSegments(Append(out, seg), rest, allowAboveRoot)
                 ELSE NormalizeSegments(out, rest, allowAboveRoot)
            ELSE NormalizeSegments(Append(out, seg), rest, allowAboveRoot)

PosixIsAbsolute(p) == Len(p) > 0 /\ p[1] = "/"

Win32Seps == {"/", "\\"}

Win32HasDevice(p) == Len(p) >= 2 /\ p[1] \in Letters /\ p[2] = ":"

Win32IsAbsolute(p) ==
    /\ Len(p) > 0
    /\ \/ p[1] \in Win32Seps
       \/ Win32HasDevice(p) /\ Len(p) > 2 /\ p[3] \in Win32Seps

\* path.posix.normalize
PosixNormalize(p) ==
    IF Len(p) = 0 THEN <<".">>
    ELSE LET isAbsolute == PosixIsAbsolute(p)
             trailingSeparator == p[Len(p)] = "/"
             body == JoinWith(NormalizeSegments(<<>>, SplitOn(p, {"/"}), ~isAbsolute), "/")
         IN IF Len(body) = 0
            THEN IF isAbsolute THEN <<"/">>
                 ELSE IF trailingSeparator THEN <<".", "/">> ELSE <<".">>
            ELSE LET withSep == IF trailingSeparator THEN body \o <<"/">> ELSE body
                 IN IF isAbsolute THEN <<"/">> \o withSep ELSE withSep

\* process.cwd()
PosixCwd == <<"/", "w">>
Win32Cwd == <<"C", ":", "\\", "w">>

\* path.posix.resolve(...args): from the right, up to the first absolute
\* argument, then the working directory.
RECURSIVE PosixResolveTail(_, _)
PosixResolveTail(args, tail) ==
    IF args = <<>> THEN PosixCwd \o <<"/">> \o tail
    ELSE LET arg == args[Len(args)]
             before == SubSeq(args, 1, Len(args) - 1)
         IN IF Len(arg) = 0 THEN PosixResolveTail(before, tail)
            ELSE IF PosixIsAbsolute(arg) THEN arg \o <<"/">> \o tail
            ELSE PosixResolveTail(before, arg \o <<"/">> \o tail)

PosixResolve(args) ==
    <<"/">> \o JoinWith(NormalizeSegments(<<>>, SplitOn(PosixResolveTail(args, <<>>), {"/"}),
                                          FALSE), "/")

\* path.win32.resolve(...args) for drive-letter and rooted paths (no UNC
\* device: "//x" is taken as rooted on the current drive).  st is the loop
\* state [device, tail, abs]; i = 0 stands for the working directory.
Win32RootEnd(p) ==
    IF Len(p) > 0 /\ p[1] \in Win32Seps THEN 1
    ELSE IF Win32HasDevice(p)
    THEN IF Len(p) > 2 /\ p[3] \in Win32Seps THEN 3 ELSE 2
    ELSE 0

Win32Device(p) ==
    IF Len(p) > 0 /\ p[1] \notin Win32Seps /\ Win32HasDevice(p) THEN SubSeq(p, 1, 2)
    ELSE <<>>

RECURSIVE Win32ResolveLoop(_, _, _)
Win32ResolveLoop(args, i, st) ==
    IF i < 0 THEN st
    ELSE LET p == IF i >= 1 THEN args[i]
                  ELSE IF st.device = <<>> THEN Win32Cwd
                  ELSE IF ToLowerCase(SubSeq(Win32Cwd, 1, 2)) = ToLowerCase(st.device)
                       THEN Win32Cwd
                       ELSE st.device \o <<"\\">>
             device == Win32Device(p)
             isAbsolute == Win32IsAbsolute(p)
             rootEnd == Win32RootEnd(p)
         IN IF i >= 1 /\ Len(p) = 0 THEN Win32ResolveLoop(args, i - 1, st)
            ELSE IF /\ device # <<>>
                    /\ st.device # <<>>
                    /\ ToLowerCase(device) # ToLowerCase(st.device)
            THEN Win32ResolveLoop(args, i - 1, st)
            ELSE LET dev == IF device # <<>> /\ st.device = <<>> THEN device ELSE st.device
                 IN IF st.abs
                    THEN IF dev # <<>> THEN [st EXCEPT !.device = dev]
                         ELSE Win32ResolveLoop(args, i - 1, [st EXCEPT !.device = dev])
                    ELSE LET next ==
                                 [device |-> dev,
                                  tail |-> SubSeq(p, rootEnd + 1, Len(p)) \o <<"\\">> \o st.tail,
                                  abs |-> isAbsolute]
                         IN IF isAbsolute /\ dev # <<>> THEN next
                            ELSE Win32ResolveLoop(args, i - 1, next)

Win32Resolve(args) ==
    LET st == Win32ResolveLoop(args, Len(args), [device |-> <<>>, tail |-> <<>>, abs |-> FALSE])
        tail == JoinWith(NormalizeSegments(<<>>, SplitOn(st.tail, Win32Seps), ~st.abs), "\\")
    IN IF st.abs THEN st.device \o <<"\\">> \o tail
       ELSE IF Len(st.device \o tail) > 0 THEN st.device \o tail ELSE <<".">>

\* path.resolve and path.sep of the running platform.
PathResolve(plat, args) == IF plat = "win32" THEN Win32Resolve(args) ELSE PosixResolve(args)

PathSep(plat) == IF plat = "win32" THEN "\\" ELSE "/"

(***************************************************************************)
(* comfyui-path.ts.  A call either returns a value or throws an Error with *)
(* a message.                                                              *)
(***************************************************************************)
Return(v) == [ok |-> TRUE, val |-> v, err |-> ""]
Throw(message) == [ok |-> FALSE, val |-> <<>>, err |-> message]

toComparablePath(plat, value) == IF plat = "win32" THEN ToLowerCase(value) ELSE value

assertNonEmptyTrimmed(value, fieldName) ==
    LET trimmed == Trim(value)
    IN IF Len(trimmed) = 0
       THEN Throw(IF fieldName = "runDir" THEN "runDir must not be empty"
                  ELSE IF fieldName = "root" THEN "root must not be empty"
                  ELSE "imagePath must not be empty")
       ELSE Return(trimmed)

\* WINDOWS_DRIVE_LETTER_PREFIX = /^[a-zA-Z]:/
MatchesDriveLetterPrefix(s) == Len(s) >= 2 /\ s[1] \in Letters /\ s[2] = ":"

\* The sanitizer as it would be with the percent check moved behind the
\* segment checks.
assertSafeRelativeImagePathPercentLate(imagePath) ==
    LET trimmedResult == assertNonEmptyTrimmed(imagePath, "imagePath")
        candidate == trimmedResult.val
        segments == SplitOn(candidate, {"/"})
        normalized == PosixNormalize(candidate)
    IN IF ~trimmedResult.ok THEN trimmedResult
       ELSE IF Includes(candidate, "NUL")
       THEN Throw("imagePath must not contain null bytes")
       ELSE IF Includes(candidate, "\\")
       THEN Throw("imagePath must not contain backslashes")
       ELSE IF PosixIsAbsolute(candidate) \/ Win32IsAbsolute(candidate)
       THEN Throw("imagePath must be relative")
       ELSE IF MatchesDriveLetterPrefix(candidate)
       THEN Throw("imagePath must not contain a drive letter")
       ELSE IF \E i \in 1..Len(segments) : Len(segments[i]) = 0
       THEN Throw("imagePath must not contain empty segments")
       ELSE IF \E i \in 1..Len(segments) : segments[i] = <<".">> \/ segments[i] = DotDot
       THEN Throw("imagePath must not contain dot segments")
       ELSE IF Includes(candidate, "%")
       THEN Throw("imagePath must not contain URL-encoded characters")
       ELSE IF \/ normalized = <<".">>
               \/ StartsWith(normalized, <<".", ".", "/">>)
               \/ IncludesSeq(normalized, <<"/", ".", ".", "/">>)
       THEN Throw("imagePath escapes the expected relative scope")
       ELSE Return(normalized)

\* The sanitizer as it would be without the dot-segment check.
assertSafeRelativeImagePathNoDotCheck(imagePath) ==
    LET trimmedResult == assertNonEmptyTrimmed(imagePath, "imagePath")
        candidate == trimmedResult.val
        segments == SplitOn(candidate, {"/"})
        normalized == PosixNormalize(candidate)
    IN IF ~trimmedResult.ok THEN trimmedResult
       ELSE IF Includes(candidate, "NUL")
       THEN Throw("imagePath must not contain null bytes")
       ELSE IF Includes(candidate, "%")
       THEN Throw("imagePath must not contain URL-encoded characters")
       ELSE IF Includes(candidate, "\\")
       THEN Throw("imagePath must not contain backslashes")
       ELSE IF PosixIsAbsolute(candidate) \/ Win32IsAbsolute(candidate)
       THEN Throw("imagePath must be relative")
       ELSE IF MatchesDriveLetterPrefix(candidate)
       THEN Throw("imagePath must not contain a drive letter")
       ELSE IF \E i \in 1..Len(segments) : Len(segments[i]) = 0
       THEN Throw("imagePath must not contain empty segments")
       ELSE IF \/ normalized = <<".">>
               \/ StartsWith(normalized, <<".", ".", "/">>)
               \/ IncludesSeq(normalized, <<"/", ".", ".", "/">>)
       THEN Throw("imagePath escapes the expected relative scope")
       ELSE Return(normalized)

assertSafeRelativeImagePath(imagePath) ==
    LET trimmedResult == assertNonEmptyTrimmed(imagePath, "imagePath")
        candidate == trimmedResult.val
        segments == SplitOn(candidate, {"/"})
        normalized == PosixNormalize(candidate)
    IN IF ~trimmedResult.ok THEN trimmedResult
       ELSE IF Includes(candidate, "NUL")
       THEN Throw("imagePath must not contain null bytes")
       ELSE IF Includes(candidate, "%")
       THEN Throw("imagePath must not contain URL-encoded characters")
       ELSE IF Includes(candidate, "\\")
       THEN Throw("imagePath must not contain backslashes")
       ELSE IF PosixIsAbsolute(candidate) \/ Win32IsAbsolute(candidate)
       THEN Throw("imagePath must be relative")
       ELSE IF MatchesDriveLetterPrefix(candidate)
       THEN Throw("imagePath must not contain a drive letter")
       ELSE IF \E i \in 1..Len(segments) : Len(segments[i]) = 0
       THEN Throw("imagePath must not contain empty segments")
       ELSE IF \E i \in 1..Len(segments) : segments[i] = <<".">> \/ segments[i] = DotDot
       THEN Throw("imagePath must not contain dot segments")
       ELSE IF \/ normalized = <<".">>
               \/ StartsWith(normalized, <<".", ".", "/">>)
               \/ IncludesSeq(normalized, <<"/", ".", ".", "/">>)
       THEN Throw("imagePath escapes the expected relative scope")
       ELSE Return(normalized)

\* The resolver as it would be if it trusted the caller's validation of
\* relPath instead of validating again.
resolvePathUnderRootTrusting(plat, rootArg, relPathArg) ==
    LET safeRoot == assertNonEmptyTrimmed(rootArg, "root")
        resolvedRoot == PathResolve(plat, <<safeRoot.val>>)
        resolvedTarget == PathResolve(plat, <<resolvedRoot, relPathArg>>)
        comparableRoot == toComparablePath(plat, resolvedRoot)
        comparableTarget == toComparablePath(plat, resolvedTarget)
        rootWithSep == IF EndsWith(comparableRoot, <<PathSep(plat)>>) THEN comparableRoot
                       ELSE comparableRoot \o <<PathSep(plat)>>
    IN IF ~safeRoot.ok THEN safeRoot
       ELSE IF comparableTarget # comparableRoot /\ ~StartsWith(comparableTarget, rootWithSep)
       THEN Throw("Resolved path escapes root")
       ELSE Return(resolvedTarget)

\* The resolver as it would be as a bare path.resolve(root, relPath).
resolvePathUnderRootBare(plat, rootArg, relPathArg) ==
    LET safeRoot == assertNonEmptyTrimmed(rootArg, "root")
    IN IF ~safeRoot.ok THEN safeRoot
       ELSE Return(PathResolve(plat, <<PathResolve(plat, <<safeRoot.val>>), relPathArg>>))

\* The resolver as it would be if only the root were made comparable.
resolvePathUnderRootFoldRootOnly(plat, rootArg, relPathArg) ==
    LET safeRoot == assertNonEmptyTrimmed(rootArg, "root")
        safeRelPath == assertSafeRelativeImagePath(relPathArg)
        resolvedRoot == PathResolve(plat, <<safeRoot.val>>)
        resolvedTarget == PathResolve(plat, <<resolvedRoot, safeRelPath.val>>)
        comparableRoot == toComparablePath(plat, resolvedRoot)
        comparableTarget == resolvedTarget
        rootWithSep == IF EndsWith(comparableRoot, <<PathSep(plat)>>) THEN comparableRoot
                       ELSE comparableRoot \o <<PathSep(plat)>>
    IN IF ~safeRoot.ok THEN safeRoot
       ELSE IF ~safeRelPath.ok THEN safeRelPath
       ELSE IF comparableTarget # comparableRoot /\ ~StartsWith(comparableTarget, rootWithSep)
       THEN Throw("Resolved path escapes root")
       ELSE Return(resolvedTarget)

resolvePathUnderRoot(plat, rootArg, relPathArg) ==
    LET safeRoot == assertNonEmptyTrimmed(rootArg, "root")
        safeRelPath == assertSafeRelativeImagePath(relPathArg)
        resolvedRoot == PathResolve(plat, <<safeRoot.val>>)
        resolvedTarget == PathResolve(plat, <<resolvedRoot, safeRelPath.val>>)
        comparableRoot == toComparablePath(plat, resolvedRoot)
        comparableTarget == toComparablePath(plat, resolvedTarget)
        rootWithSep == IF EndsWith(comparableRoot, <<PathSep(plat)>>) THEN comparableRoot
                       ELSE comparableRoot \o <<PathSep(plat)>>
    IN IF ~safeRoot.ok THEN safeRoot
       ELSE IF ~safeRelPath.ok THEN safeRelPath
       ELSE IF comparableTarget # comparableRoot /\ ~StartsWith(comparableTarget, rootWithSep)
       THEN Throw("Resolved path escapes root")
       ELSE Return(resolvedTarget)

(***************************************************************************)
(* comfyui-types.ts: RUN_DIR_REGEX = /^run-\d{8}T\d{6}Z$/.                 *)
(***************************************************************************)
IsDigit(c) == c \in {"0", "1", "2", "3", "4", "5", "6", "7", "8", "9"}

isValidRunDir(runDir) ==
    /\ Len(runDir) = 20
    /\ SubSeq(runDir, 1, 4) = <<"r", "u", "n", "-">>
    /\ \A i \in 5..12 : IsDigit(runDir[i])
    /\ runDir[13] = "T"
    /\ \A i \in 14..19 : IsDigit(runDir[i])
    /\ runDir[20] = "Z"

(***************************************************************************)
(* comfyui-path.ts: assertAllowedRunDir.                                   *)
(***************************************************************************)
\* The check as it would be if a well-formed identifier were enough.
assertAllowedRunDirSyntaxOnly(runDir, allowed) ==
    LET candidate == assertNonEmptyTrimmed(runDir, "runDir")
    IN IF ~candidate.ok THEN candidate
       ELSE IF ~isValidRunDir(candidate.val) THEN Throw("Invalid runDir format")
       ELSE candidate

assertAllowedRunDir(runDir, allowed) ==
    LET candidate == assertNonEmptyTrimmed(runDir, "runDir")
    IN IF ~candidate.ok THEN candidate
       ELSE IF ~isValidRunDir(candidate.val) THEN Throw("Invalid runDir format")
       ELSE IF candidate.val \notin allowed THEN Throw("runDir is not in allowlist")
       ELSE candidate

(***************************************************************************)
(* The storage tree.  An entry of the storage root is a record:            *)
(*   kind     "none" (no such name), "file", "link" (a symbolic link, for  *)
(*            which Dirent.isDirectory() is false) or "dir";               *)
(*   runJson  what stat(<dir>/run.json) finds: "absent" (ENOENT), "file",  *)
(*            "dir", or "error" (any other errno, EACCES here);            *)
(*   descriptor  whether the content of run.json passes loadRunDetail;     *)
(*   log      metadata.jsonl: "absent", "present" or "error" on read.      *)
(***************************************************************************)
Entry(kind, runJson, descriptor, logState) ==
    [kind |-> kind, runJson |-> runJson, descriptor |-> descriptor, log |-> logState]

NoEntry == Entry("none", "absent", "invalid", "absent")

MkRun(d) ==
    <<"r", "u", "n", "-", "2", "0", "2", "6", "0", "2", "1", "7", "T",
      "0", "7", "2", "4", "1", d, "Z">>

RunA == MkRun("4")
RunB == MkRun("5")
RunC == MkRun("9")
\* Names that only look like run identifiers.
NotesName == <<"r", "u", "n", "-", "n", "o", "t", "e", "s">>
LowerZName == <<"r", "u", "n", "-", "2", "0", "2", "6", "0", "2", "1", "7", "T",
                "0", "7", "2", "4", "1", "4", "z">>

EntryNames == {RunA, RunB, NotesName}

RunAStates ==
    { NoEntry,
      Entry("file", "absent", "invalid", "absent"),
      Entry("link", "file", "valid", "present"),
      Entry("dir", "absent", "invalid", "present"),
      Entry("dir", "dir", "invalid", "absent"),
      Entry("dir", "error", "valid", "present"),
      Entry("dir", "file", "valid", "absent"),
      Entry("dir", "file", "valid", "present"),
      Entry("dir", "file", "valid", "error"),
      Entry("dir", "file", "invalid", "present") }

RunBStates ==
    { NoEntry,
      Entry("dir", "absent", "invalid", "absent"),
      Entry("dir", "error", "valid", "present"),
      Entry("dir", "file", "valid", "present") }

NotesStates == { NoEntry, Entry("dir", "file", "valid", "present") }

StorageTrees ==
    {[n \in EntryNames |->
        IF n = RunA THEN a ELSE IF n = RunB THEN b ELSE c] :
            a \in RunAStates, b \in RunBStates, c \in NotesStates}

EmptyTree == [n \in EntryNames |-> NoEntry]

\* What the storage root holds under a name.
EntryOf(tree, name) == IF name \in DOMAIN tree THEN tree[name] ELSE NoEntry

RUN_JSON_FILENAME == <<"r", "u", "n", ".", "j", "s", "o", "n">>
METADATA_JSONL_FILENAME ==
    <<"m", "e", "t", "a", "d", "a", "t", "a", ".", "j", "s", "o", "n", "l">>

\* path.resolve(process.cwd(), "comfyui_api_outputs")
DEFAULT_COMFYUI_OUTPUTS_ROOT ==
    PosixResolve(<<PosixCwd,
                   <<"c", "o", "m", "f", "y", "u", "i", "_", "a", "p", "i", "_",
                     "o", "u", "t", "p", "u", "t", "s">>>>)

\* path.join of a directory and names (posix).
PathJoin(parts) == PosixNormalize(JoinWith(parts, "/"))

\* A thrown value: an Error with a message, or an errno exception with a code.
Errno(code) == [ok |-> FALSE, val |-> <<>>, err |-> code]

(***************************************************************************)
(* comfyui-fs.ts: discoverRunDirs.                                         *)
(***************************************************************************)
\* The orders in which readdir may list the entries that exist.
Listings(tree) ==
    LET present == {n \in EntryNames : tree[n].kind # "none"}
    IN {o \in [1..Cardinality(present) -> present] : Range(o) = present}

\* entries.filter((entry) => entry.isDirectory() && isValidRunDir(entry.name))
RECURSIVE Candidates(_, _)
Candidates(tree, names) ==
    IF names = <<>> THEN <<>>
    ELSE IF tree[Head(names)].kind = "dir" /\ isValidRunDir(Head(names))
         THEN <<Head(names)>> \o Candidates(tree, Tail(names))
         ELSE Candidates(tree, Tail(names))

\* containsRunJson as it would be without the isFile() test.
containsRunJsonAnyKind(tree, name) ==
    CASE tree[name].runJson = "file" -> "yes"
      [] tree[name].runJson = "dir" -> "yes"
      [] tree[name].runJson = "absent" -> "no"
      [] OTHER -> "throw"

\* containsRunJson: "yes", "no", or "throw" for an errno other than ENOENT.
containsRunJson(tree, name) ==
    CASE tree[name].runJson = "file" -> "yes"
      [] tree[name].runJson = "dir" -> "no"
      [] tree[name].runJson = "absent" -> "no"
      [] OTHER -> "throw"

\* String.prototype.localeCompare on run identifiers: -1, 0 or 1.
CollationOrder ==
    <<"-", "0", "1", "2", "3", "4", "5", "6", "7", "8", "9", "n", "r", "T", "u", "Z">>

CharRank(c) == CHOOSE i \in 1..Len(CollationOrder) : CollationOrder[i] = c

RECURSIVE localeCompare(_, _)
localeCompare(a, b) ==
    IF a = <<>> /\ b = <<>> THEN 0
    ELSE IF a = <<>> THEN 0 - 1
    ELSE IF b = <<>> THEN 1
    ELSE IF CharRank(Head(a)) < CharRank(Head(b)) THEN 0 - 1
    ELSE IF CharRank(Head(a)) > CharRank(Head(b)) THEN 1
    ELSE localeCompare(Tail(a), Tail(b))

\* The comparator as it would be with its operands the other way round.
CompareRunDirsAscending(left, right) == localeCompare(left, right)

\* (left, right) => right.localeCompare(left)
CompareRunDirs(left, right) == localeCompare(right, left)

\* Array.prototype.sort with that comparator (stable).
RECURSIVE InsertSorted(_, _)
InsertSorted(sorted, x) ==
    IF sorted = <<>> THEN <<x>>
    ELSE IF CompareRunDirs(x, Head(sorted)) < 0 THEN <<x>> \o sorted
    ELSE <<Head(sorted)>> \o InsertSorted(Tail(sorted), x)

RECURSIVE SortRunDirs(_)
SortRunDirs(list) ==
    IF list = <<>> THEN <<>>
    ELSE InsertSorted(SortRunDirs(SubSeq(list, 1, Len(list) - 1)), list[Len(list)])

\* runDirs.filter((runDir) => runDir !== null)
RECURSIVE KeepFound(_, _, _)
KeepFound(cands, results, i) ==
    IF i > Len(cands) THEN <<>>
    ELSE IF results[i] = "yes" THEN <<cands[i]>> \o KeepFound(cands, results, i + 1)
    ELSE KeepFound(cands, results, i + 1)

NotCalled == [ok |-> FALSE, val |-> <<>>, err |-> "not called"]

PathIdle ==
    /\ platform = "linux"
    /\ relPath = <<>>
    /\ root = <<>>
    /\ sanitized = NotCalled
    /\ resolved = NotCalled
    /\ ppc = "idle"

IngestIdle ==
    /\ sel = [x_indexes |-> <<>>, y_indexes |-> <<>>]
    /\ log = <<>>
    /\ pos = 1
    /\ cells = EmptyMap
    /\ grid = NoGrid
    /\ first = NoGrid
    /\ gpc = "idle"

\* The dialog before any cell was opened.
NoSelection == [none |-> TRUE]

WidgetIdle ==
    /\ dialogOpen = FALSE
    /\ selectedCell = NoSelection
    /\ currentImageIndex = 0
    /\ copiedField = "none"
    /\ copying = {}

\* No fetchRunDetail has been called.
NoFetch == [pc |-> "none", runDir |-> "", aborted |-> FALSE, detail |-> "pending",
            grid |-> "pending"]

PageIdle ==
    /\ param = ""
    /\ loadState = "loading"
    /\ detailData = "null"
    /\ gridData = "null"
    /\ fetchNow = NoFetch
    /\ fetchOld = NoFetch

AppendIdle ==
    /\ wrote = 0
    /\ partial = "none"
    /\ took = 0

ViewIdle == WidgetIdle /\ PageIdle /\ AppendIdle

DescriptorIdle ==
    /\ raw = <<>>
    /\ detail = NotCalled
    /\ dpc = "idle"

(***************************************************************************)
(* The route handlers.                                                     *)
(***************************************************************************)
DetailNotFoundMessages ==
    {"runDir must not be empty", "Invalid runDir format", "runDir is not in allowlist"}

ImageNotFoundMessages ==
    DetailNotFoundMessages \cup
    {"imagePath must not be empty",
     "imagePath must not contain null bytes",
     "imagePath must not contain URL-encoded characters",
     "imagePath must not contain backslashes",
     "imagePath must be relative",
     "imagePath must not contain a drive letter",
     "imagePath must not contain empty segments",
     "imagePath must not contain dot segments",
     "imagePath escapes the expected relative scope",
     "Resolved path escapes root"}

\* isNotFoundError as it would be without the test of error.code.
isNotFoundErrorMessagesOnly(kind, error) ==
    error.err \in (IF kind = "image" THEN ImageNotFoundMessages
                   ELSE DetailNotFoundMessages)

\* isNotFoundError as it would be if the image route had kept only its own
\* messages.
isNotFoundErrorOwnMessages(kind, error) ==
    \/ error.err \in (IF kind = "image"
                      THEN ImageNotFoundMessages \ DetailNotFoundMessages
                      ELSE DetailNotFoundMessages)
    \/ error.err = "ENOENT"

\* isNotFoundError of the run-detail route and of the image route.
isNotFoundError(kind, error) ==
    \/ error.err \in (IF kind = "image" THEN ImageNotFoundMessages
                      ELSE DetailNotFoundMessages)
    \/ error.err = "ENOENT"

\* error: what the catch block received ("none" outside it); it is not sent.
NoResponse == [status |-> 0, body |-> "", at |-> "", error |-> "none"]

\* The catch block of a handler; that of the runs listing answers with an
\* empty list whatever was thrown.
Caught(kind, error, at) ==
    IF kind = "list"
    THEN [status |-> 200, body |-> "[]", at |-> at, error |-> error.err]
    ELSE IF isNotFoundError(kind, error)
    THEN [status |-> 404,
          body |-> IF kind = "image" THEN "Image not found" ELSE "Run not found",
          at |-> at, error |-> error.err]
    ELSE [status |-> 500,
          body |-> IF kind = "image" THEN "Failed to load image"
                   ELSE "Failed to load run detail",
          at |-> at, error |-> error.err]

\* What a valid run.json and a present metadata.jsonl hold (Scenario A, and a
\* line that does not parse).
StoredSelection == [x_indexes |-> <<0, 1>>, y_indexes |-> <<0>>]

StoredLog == <<ObjLine(Num(0), Num(0), Str(StSuccess), BodyFull), GarbageLine>>

\* The identifiers a caller sends.
CallerRunDirs ==
    { RunA, RunB, RunC, <<" ">> \o RunA, RunB \o <<" ">>, NotesName, LowerZName,
      <<" ">>, <<>> }

\* The catch-all segments of the image route.
CallerImagePaths ==
    { <<<<"a">>>>, <<<<"a">>, <<"a", ".", "a">>>>, <<<<".", ".">>, <<"a">>>>,
      <<<<"a", "%">>>> }

Requests ==
    [kind : {"list"}, runDir : {<<>>}, imagePath : {<<>>}]
    \cup [kind : {"detail"}, runDir : CallerRunDirs, imagePath : {<<>>}]
    \cup [kind : {"image"}, runDir : CallerRunDirs, imagePath : CallerImagePaths]

Op(name, path, from) == [op |-> name, path |-> path, from |-> from]

RequestIdle ==
    /\ fsRoot = "dir"
    /\ fsEntries = EmptyTree
    /\ req = [kind |-> "none", runDir |-> <<>>, imagePath |-> <<>>]
    /\ rpc = "idle"
    /\ dirents = <<>>
    /\ statRes = <<>>
    /\ settled = <<>>
    /\ allow = <<>>
    /\ safeRunDir = <<>>
    /\ built = {}
    /\ ops = {}
    /\ resp = NoResponse

InitRequest ==
    /\ IngestIdle
    /\ PathIdle
    /\ DescriptorIdle
    /\ ViewIdle
    /\ \/ fsRoot = "dir" /\ fsEntries \in StorageTrees
       \/ fsRoot \in {"absent", "error"} /\ fsEntries = EmptyTree
    /\ req \in Requests
    /\ rpc = "discover"
    /\ dirents = <<>>
    /\ statRes = <<>>
    /\ settled = <<>>
    /\ allow = <<>>
    /\ safeRunDir = <<>>
    /\ built = {}
    /\ ops = {}
    /\ resp = NoResponse

Respond(r) ==
    /\ resp' = r
    /\ rpc' = "done"

\* discoverRunDirs: readdir(outputsRoot), the filter, and the start of every
\* containsRunJson (candidates.map starts them all).
Readdir ==
    /\ rpc = "discover"
    /\ IF fsRoot = "absent"
       THEN /\ allow' = <<>>
            /\ rpc' = IF req.kind = "list" THEN "summarize" ELSE "allow"
            /\ ops' = ops \cup {Op("readdir", DEFAULT_COMFYUI_OUTPUTS_ROOT, "root")}
            /\ UNCHANGED <<dirents, statRes, settled, resp>>
       ELSE IF fsRoot = "error"
       THEN /\ Respond(Caught(req.kind, Errno("EACCES"), "discover"))
            /\ ops' = ops \cup {Op("readdir", DEFAULT_COMFYUI_OUTPUTS_ROOT, "root")}
            /\ UNCHANGED <<dirents, statRes, settled, allow>>
       ELSE \E listing \in Listings(fsEntries) :
              LET cands == Candidates(fsEntries, listing)
              IN /\ dirents' = cands
                 /\ statRes' = [i \in 1..Len(cands) |-> "pending"]
                 /\ settled' = <<>>
                 /\ ops' = ops \cup {Op("readdir", DEFAULT_COMFYUI_OUTPUTS_ROOT, "root")}
                             \cup {Op("stat",
                                      PathJoin(<<DEFAULT_COMFYUI_OUTPUTS_ROOT, cands[i],
                                                 RUN_JSON_FILENAME>>),
                                      "entry") : i \in 1..Len(cands)}
                 /\ rpc' = "stats"
                 /\ UNCHANGED <<allow, resp>>
    /\ UNCHANGED <<fsRoot, fsEntries, req, safeRunDir, built, gridVars, pathVars, descVars, viewVars>>

\* One containsRunJson settles; a rejection rejects Promise.all at once.
StatDone ==
    /\ rpc = "stats"
    /\ \E i \in 1..Len(dirents) :
        /\ statRes[i] = "pending"
        /\ IF containsRunJson(fsEntries, dirents[i]) = "throw"
           THEN /\ Respond(Caught(req.kind, Errno("EACCES"), "discover"))
                /\ UNCHANGED <<statRes, settled>>
           ELSE /\ statRes' = [statRes EXCEPT ![i] = containsRunJson(fsEntries, dirents[i])]
                /\ settled' = Append(settled, dirents[i])
                /\ UNCHANGED <<rpc, resp>>
    /\ UNCHANGED <<fsRoot, fsEntries, req, dirents, allow, safeRunDir, built, ops,
                   gridVars, pathVars, descVars, viewVars>>

\* discoverRunDirs as it would be if each check pushed its name onto the
\* result when it completed and the result were returned as collected.
DiscoverReturnInCompletionOrder ==
    /\ rpc = "stats"
    /\ \A i \in 1..Len(dirents) : statRes[i] # "pending"
    /\ allow' = SelectSeq(settled, LAMBDA n : containsRunJson(fsEntries, n) = "yes")
    /\ rpc' = IF req.kind = "list" THEN "summarize" ELSE "allow"
    /\ UNCHANGED <<fsRoot, fsEntries, req, dirents, statRes, settled, safeRunDir, built,
                   ops, resp, gridVars, pathVars, descVars, viewVars>>

\* Promise.all resolved: filter the nulls, sort, return.
DiscoverReturn ==
    /\ rpc = "stats"
    /\ \A i \in 1..Len(dirents) : statRes[i] # "pending"
    /\ allow' = SortRunDirs(KeepFound(dirents, statRes, 1))
    /\ rpc' = IF req.kind = "list" THEN "summarize" ELSE "allow"
    /\ UNCHANGED <<fsRoot, fsEntries, req, dirents, statRes, settled,
                   safeRunDir, built, ops,
                   resp, gridVars, pathVars, descVars, viewVars>>

\* loadRunDetail as it would be if it rethrew every failed read as one error
\* without the errno of the cause.
ReadDescriptorWrapped(entry) ==
    IF entry.kind \notin {"dir", "link"} \/ entry.runJson = "absent" THEN "EIO"
    ELSE IF entry.runJson = "dir" THEN "EIO"
    ELSE IF entry.runJson = "error" THEN "EIO"
    ELSE IF entry.descriptor = "invalid" THEN "invalid"
    ELSE "ok"

\* What readFile(runJsonPath) and the two checks of the descriptor give:
\* "ok", an errno, or "invalid" for a content loadRunDetail throws on.
ReadDescriptor(entry) ==
    IF entry.kind \notin {"dir", "link"} \/ entry.runJson = "absent" THEN "ENOENT"
    ELSE IF entry.runJson = "dir" THEN "EISDIR"
    ELSE IF entry.runJson = "error" THEN "EACCES"
    ELSE IF entry.descriptor = "invalid" THEN "invalid"
    ELSE "ok"

\* The runs of the list whose descriptor loads: a failed loadRunDetail is
\* skipped (catch { continue }).
RECURSIVE Summaries(_, _)
Summaries(tree, runDirs) ==
    IF runDirs = <<>> THEN <<>>
    ELSE IF ReadDescriptor(EntryOf(tree, Head(runDirs))) = "ok"
         THEN <<Head(runDirs)>> \o Summaries(tree, Tail(runDirs))
         ELSE Summaries(tree, Tail(runDirs))

\* listRunSummaries after discoverRunDirs, and Response.json of the result.
ListRunSummaries ==
    /\ rpc = "summarize"
    /\ ops' = ops \cup {Op("readFile",
                            PathJoin(<<DEFAULT_COMFYUI_OUTPUTS_ROOT, allow[i],
                                       RUN_JSON_FILENAME>>),
                            "entry") : i \in 1..Len(allow)}
    /\ Respond([status |-> 200,
                body |-> IF Summaries(fsEntries, allow) = <<>> THEN "[]"
                         ELSE "run summaries",
                at |-> "respond", error |-> "none"])
    /\ UNCHANGED <<fsRoot, fsEntries, req, dirents, statRes, settled,
                   allow, safeRunDir, built,
                   gridVars, pathVars, descVars, viewVars>>

\* assertAllowedRunDir(runDir, allowedRunDirs)
AllowResult == assertAllowedRunDir(req.runDir, Range(allow))

\* The handler as it would be if it took the identifier as sent.
AllowUnchecked ==
    /\ rpc = "allow"
    /\ safeRunDir' = Trim(req.runDir)
    /\ rpc' = IF req.kind = "image" THEN "sanitize" ELSE "loadDetail"
    /\ UNCHANGED <<fsRoot, fsEntries, req, dirents, statRes, settled,
                   allow, built, ops, resp,
                   gridVars, pathVars, descVars, viewVars>>

\* const safeRunDir = assertAllowedRunDir(runDir, allowedRunDirs)
Allow ==
    /\ rpc = "allow"
    /\ IF AllowResult.ok
       THEN /\ safeRunDir' = AllowResult.val
            /\ rpc' = IF req.kind = "image" THEN "sanitize" ELSE "loadDetail"
            /\ UNCHANGED resp
       ELSE /\ Respond(Caught(req.kind, AllowResult, "allowlist"))
            /\ UNCHANGED safeRunDir
    /\ UNCHANGED <<fsRoot, fsEntries, req, dirents, statRes, settled,
                   allow, built, ops,
                   gridVars, pathVars, descVars, viewVars>>

\* path.join(outputsRoot, runDir, RUN_JSON_FILENAME)
RunJsonPath == PathJoin(<<DEFAULT_COMFYUI_OUTPUTS_ROOT, safeRunDir, RUN_JSON_FILENAME>>)

\* path.join(outputsRoot, runDir, METADATA_JSONL_FILENAME)
MetadataPath ==
    PathJoin(<<DEFAULT_COMFYUI_OUTPUTS_ROOT, safeRunDir, METADATA_JSONL_FILENAME>>)

\* loadRunDetail(safeRunDir): path.join, readFile, parseJsonObject,
\* normalizeRunDetail.
LoadDetail ==
    /\ rpc = "loadDetail"
    /\ built' = built \cup {RunJsonPath}
    /\ ops' = ops \cup {Op("readFile", RunJsonPath, "request")}
    /\ IF ReadDescriptor(EntryOf(fsEntries, safeRunDir)) = "ok"
       THEN rpc' = "parseLog" /\ sel' = StoredSelection /\ UNCHANGED resp
       ELSE IF ReadDescriptor(EntryOf(fsEntries, safeRunDir)) = "invalid"
       THEN /\ Respond(Caught(req.kind, Throw("Invalid run.json"), "descriptor"))
            /\ UNCHANGED sel
       ELSE /\ Respond(Caught(req.kind,
                              Errno(ReadDescriptor(EntryOf(fsEntries, safeRunDir))),
                              "descriptor"))
            /\ UNCHANGED sel
    /\ UNCHANGED <<fsRoot, fsEntries, req, dirents, statRes, settled,
                   allow, safeRunDir,
                   log, pos, cells, grid, first, gpc, pathVars, descVars, viewVars>>

\* readFile(metadataPath, "utf8") and raw.split(/\r?\n/): the lines, or the
\* errno of the read.
ReadLog(entry) ==
    IF entry.log = "absent" THEN Errno("ENOENT")
    ELSE IF entry.log = "error" THEN Errno("EIO")
    ELSE Return(StoredLog)

\* parseMetadataJsonl as it would be if every failed read counted as an
\* empty log.
parseMetadataJsonlSwallowing(read) ==
    IF ~read.ok THEN Return(EmptyMap)
    ELSE Return(ParseLines(EmptyMap, read.val))

\* parseMetadataJsonl: ENOENT is an empty map, any other errno is rethrown.
parseMetadataJsonl(read) ==
    IF ~read.ok
    THEN IF read.err = "ENOENT" THEN Return(EmptyMap) ELSE read
    ELSE Return(ParseLines(EmptyMap, read.val))

\* const cells = await parseMetadataJsonl(runDir, outputsRoot)
ParsedLog == parseMetadataJsonl(ReadLog(EntryOf(fsEntries, safeRunDir)))

ParseLog ==
    /\ rpc = "parseLog"
    /\ built' = built \cup {MetadataPath}
    /\ ops' = ops \cup {Op("readFile", MetadataPath, "request")}
    /\ IF ParsedLog.ok
       THEN /\ cells' = ParsedLog.val
            /\ log' = IF ReadLog(EntryOf(fsEntries, safeRunDir)).ok THEN StoredLog ELSE <<>>
            /\ rpc' = "respond"
            /\ UNCHANGED resp
       ELSE /\ Respond(Caught(req.kind, ParsedLog, "log"))
            /\ UNCHANGED <<log, cells>>
    /\ UNCHANGED <<fsRoot, fsEntries, req, dirents, statRes, settled,
                   allow, safeRunDir,
                   sel, pos, grid, first, gpc, pathVars, descVars, viewVars>>

\* buildGridIndex and Response.json({run, xLabels, yLabels})
RespondDetail ==
    /\ rpc = "respond"
    /\ grid' = buildGridIndex(sel, cells)
    /\ Respond([status |-> 200, body |-> "run detail", at |-> "respond", error |-> "none"])
    /\ UNCHANGED <<fsRoot, fsEntries, req, dirents, statRes, settled,
                   allow, safeRunDir, built,
                   ops, sel, log, pos, cells, first, gpc, pathVars,
                   descVars, viewVars>>

\* imagePath.join("/")
JoinedImagePath == JoinWith(req.imagePath, "/")

\* const relativeImagePath = assertSafeRelativeImagePath(imagePath.join("/"))
SanitizeImage ==
    /\ rpc = "sanitize"
    /\ relPath' = JoinedImagePath
    /\ sanitized' = assertSafeRelativeImagePath(JoinedImagePath)
    /\ IF sanitized'.ok
       THEN rpc' = "resolve" /\ UNCHANGED resp
       ELSE Respond(Caught(req.kind, sanitized', "sanitizer"))
    /\ UNCHANGED <<fsRoot, fsEntries, req, dirents, statRes, settled,
                   allow, safeRunDir, built,
                   ops, gridVars, platform, root, resolved, ppc, descVars, viewVars>>

\* const runRoot = path.join(DEFAULT_COMFYUI_OUTPUTS_ROOT, safeRunDir)
RunRoot == PathJoin(<<DEFAULT_COMFYUI_OUTPUTS_ROOT, safeRunDir>>)

\* resolvePathUnderRoot(runRoot, relativeImagePath)
ResolvedImage == resolvePathUnderRoot(platform, RunRoot, sanitized.val)

ResolveImage ==
    /\ rpc = "resolve"
    /\ root' = RunRoot
    /\ resolved' = ResolvedImage
    /\ built' = built \cup {RunRoot} \cup (IF resolved'.ok THEN {resolved'.val} ELSE {})
    /\ IF resolved'.ok THEN rpc' = "statImage" /\ UNCHANGED resp
       ELSE Respond(Caught(req.kind, resolved', "resolver"))
    /\ UNCHANGED <<fsRoot, fsEntries, req, dirents, statRes, settled,
                   allow, safeRunDir, ops,
                   gridVars, platform, relPath, sanitized, ppc, descVars, viewVars>>

\* stat(absoluteImagePath), isFile(), and the streamed response.  The image
\* files of a run are not part of the modelled tree: the stat finds any of
\* a file, a directory, nothing, or an errno other than ENOENT.
StatImage ==
    /\ rpc = "statImage"
    /\ ops' = ops \cup {Op("stat", resolved.val, "request")}
    /\ \E found \in {"file", "dir", "ENOENT", "EACCES"} :
        IF found = "file"
        THEN Respond([status |-> 200, body |-> "image stream", at |-> "respond", error |-> "none"])
        ELSE IF found = "dir"
        THEN Respond([status |-> 404, body |-> "Image not found", at |-> "image", error |-> "none"])
        ELSE Respond(Caught(req.kind, Errno(found), "image"))
    /\ UNCHANGED <<fsRoot, fsEntries, req, dirents, statRes, settled,
                   allow, safeRunDir, built,
                   gridVars, pathVars, descVars, viewVars>>

NextRequest ==
    \/ Readdir
    \/ StatDone
    \/ DiscoverReturn
    \/ Allow
    \/ LoadDetail
    \/ ParseLog
    \/ RespondDetail
    \/ SanitizeImage
    \/ ResolveImage
    \/ StatImage
    \/ ListRunSummaries

Spec == InitRequest /\ [][NextRequest]_vars

(***************************************************************************)
(* The request pipeline while another process removes a run: between the   *)
(* enumeration of the allowlist and the read of the descriptor the run's   *)
(* directory, or its run.json, disappears.                                 *)
(***************************************************************************)
RemoveRun ==
    /\ req.kind = "detail"
    /\ rpc \in {"allow", "loadDetail"}
    /\ \A o \in ops : o.from # "remover"
    /\ \E n \in Range(allow), whole \in BOOLEAN :
        /\ fsEntries' = [fsEntries EXCEPT
                            ![n] = IF whole THEN NoEntry
                                   ELSE [fsEntries[n] EXCEPT !.runJson = "absent"]]
        /\ ops' = ops \cup {Op(IF whole THEN "rm" ELSE "unlink", n, "remover")}
    /\ UNCHANGED <<fsRoot, req, rpc, dirents, statRes, settled, allow, safeRunDir, built,
                   resp, gridVars, pathVars, descVars, viewVars>>

NextRace == NextRequest \/ RemoveRun

SpecRace == InitRequest /\ [][NextRace]_vars

(***************************************************************************)
(* The path functions applied to every short string.                       *)
(***************************************************************************)
PathChars == {"a", ".", "/", "%", "\\", ":", " ", "NUL"}

Platforms == {"linux", "win32"}

Roots(plat) ==
    IF plat = "win32"
    THEN { <<"C", ":", "\\", "R">>, <<"c", ":", "\\", "r", "\\">>, <<"r">>,
           <<"\\", "R", "\\", ".", ".", "\\", "a">>, <<"C", ":", "\\">>, <<" ">> }
    ELSE { <<"/", "R">>, <<"/", "r", "/">>, <<"r">>,
           <<"/", "R", "/", ".", ".", "/", "a">>, <<"/">>, <<" ">> }

InitPath ==
    /\ IngestIdle
    /\ RequestIdle
    /\ DescriptorIdle
    /\ ViewIdle
    /\ platform \in Platforms
    /\ relPath \in SeqsUpTo(PathChars, MaxPathLen)
    /\ root = <<>>
    /\ sanitized = NotCalled
    /\ resolved = NotCalled
    /\ ppc = "start"

\* assertSafeRelativeImagePath(relPath)
Sanitize ==
    /\ ppc = "start"
    /\ sanitized' = assertSafeRelativeImagePath(relPath)
    /\ ppc' = "sanitized"
    /\ UNCHANGED <<platform, relPath, root, resolved, gridVars, reqVars, descVars, viewVars>>

\* resolvePathUnderRoot(root, relPath), whatever an earlier validation said
Resolve ==
    /\ ppc = "sanitized"
    /\ \E r \in Roots(platform) :
        /\ root' = r
        /\ resolved' = resolvePathUnderRoot(platform, r, relPath)
    /\ ppc' = "resolved"
    /\ UNCHANGED <<platform, relPath, sanitized, gridVars, reqVars, descVars, viewVars>>

NextPath == Sanitize \/ Resolve

SpecPath == InitPath /\ [][NextPath]_vars

(***************************************************************************)
(* The ingestion of one run: parseMetadataJsonl line by line, then         *)
(* buildGridIndex (loadRunGridIndex).                                      *)
(***************************************************************************)
IdxValues == {0, 1}

Selections(n) ==
    [x_indexes : SeqsUpTo(IdxValues, n), y_indexes : SeqsUpTo(IdxValues, n)]

\* The declared grids of the event-log specification.
LogSelections ==
    { [x_indexes |-> <<0, 1>>, y_indexes |-> <<0, 1>>],
      [x_indexes |-> <<1, 0 - 1, 0>>, y_indexes |-> <<10, 0>>] }

InitIngest(selections, logs) ==
    /\ PathIdle
    /\ RequestIdle
    /\ DescriptorIdle
    /\ ViewIdle
    /\ sel \in selections
    /\ log \in logs
    /\ pos = 1
    /\ cells = EmptyMap
    /\ grid = NoGrid
    /\ first = NoGrid
    /\ gpc = "parse"

\* for (const line of lines) { ... }
ParseLine ==
    /\ gpc = "parse"
    /\ pos <= Len(log)
    /\ cells' = ProcessLine(cells, log[pos])
    /\ pos' = pos + 1
    /\ UNCHANGED <<sel, log, grid, first, gpc, pathVars, reqVars, descVars, viewVars>>

\* return Object.fromEntries(cells)
ParseReturn ==
    /\ gpc = "parse"
    /\ pos > Len(log)
    /\ gpc' = "build"
    /\ UNCHANGED <<sel, log, pos, cells, grid, first, pathVars, reqVars, descVars, viewVars>>

\* const grid = buildGridIndex(runDetail, cells)
BuildGrid ==
    /\ gpc = "build"
    /\ grid' = buildGridIndex(sel, cells)
    /\ gpc' = "done"
    /\ UNCHANGED <<sel, log, pos, cells, first, pathVars, reqVars, descVars, viewVars>>

NextIngest == ParseLine \/ ParseReturn \/ BuildGrid

InitLog == InitIngest(LogSelections, SeqsUpTo(LogLines, MaxLogLines))

SpecLog == InitLog /\ [][NextIngest]_vars

InitGrid == InitIngest(Selections(MaxIdx), SeqsUpTo(GridLines, MaxGridLines))

\* A second loadRunGridIndex of the same run as it would be if the reader
\* kept its position in the file between calls.
LoadAgainFromPosition ==
    /\ gpc = "done"
    /\ ~first.built
    /\ first' = grid
    /\ cells' = EmptyMap
    /\ grid' = NoGrid
    /\ gpc' = "parse"
    /\ UNCHANGED <<sel, log, pos, pathVars, reqVars, descVars, viewVars>>

\* A second loadRunGridIndex of the same run, descriptor and log unchanged:
\* the lines are read again into a new Map.
LoadAgain ==
    /\ gpc = "done"
    /\ ~first.built
    /\ first' = grid
    /\ pos' = 1
    /\ cells' = EmptyMap
    /\ grid' = NoGrid
    /\ gpc' = "parse"
    /\ UNCHANGED <<sel, log, pathVars, reqVars, descVars, viewVars>>

NextGrid == NextIngest \/ LoadAgain

SpecGrid == InitGrid /\ [][NextGrid]_vars

(***************************************************************************)
(* comfyui-fs.ts: the run descriptor loader.  The parsed content of        *)
(* run.json is a record: kind as for a log line, f the top-level keys,     *)
(* selection and generation_overrides the two nested values.               *)
(***************************************************************************)
toStringOrEmpty(v) == IF v.t = "string" THEN v ELSE Str(<<>>)

toNumberOrZero(v) == Coalesce(toNullableNumber(v), Num(0))

\* value.filter((item) => typeof item === "number" && Number.isInteger(item))
RECURSIVE FilterIntegers(_)
FilterIntegers(a) ==
    IF a = <<>> THEN <<>>
    ELSE IF Head(a).t = "int" THEN <<Head(a).n>> \o FilterIntegers(Tail(a))
         ELSE FilterIntegers(Tail(a))

toIntegerArray(v) == IF v.t # "array" THEN <<>> ELSE FilterIntegers(v.a)

SelectionKeys ==
    {"x_indexes", "y_indexes", "x_count", "y_count", "total_cells", "x_limit",
     "y_limit", "x_indexes_raw", "y_indexes_raw"}

normalizeSelection(value) ==
    LET record == IF value.obj THEN value.f ELSE [k \in SelectionKeys |-> Absent]
        xIndexes == toIntegerArray(record.x_indexes)
        yIndexes == toIntegerArray(record.y_indexes)
    IN [x_indexes |-> xIndexes,
        y_indexes |-> yIndexes,
        x_count |-> Coalesce(toNullableInteger(record.x_count), Num(Len(xIndexes))).n,
        y_count |-> Coalesce(toNullableInteger(record.y_count), Num(Len(yIndexes))).n,
        total_cells |->
            Coalesce(toNullableInteger(record.total_cells),
                     Num(Len(xIndexes) * Len(yIndexes))).n,
        x_limit |-> toNullableNumber(record.x_limit),
        y_limit |-> toNullableNumber(record.y_limit),
        x_indexes_raw |-> toNullableString(record.x_indexes_raw),
        y_indexes_raw |-> toNullableString(record.y_indexes_raw)]

OverrideStringKeys == {"negative_prompt", "sampler_name", "scheduler"}
OverrideNumberKeys == {"width", "height", "batch_size", "steps", "cfg", "denoise"}
OverrideKeys == OverrideStringKeys \cup OverrideNumberKeys

normalizeGenerationOverrides(value) ==
    LET record == IF value.obj THEN value.f ELSE [k \in OverrideKeys |-> Absent]
    IN [k \in OverrideKeys |->
          IF k \in OverrideNumberKeys THEN toNullableNumber(record[k])
          ELSE toNullableString(record[k])]

StringOrEmptyKeys ==
    {"x_csv_path", "y_csv_path", "x_csv_sha256", "y_csv_sha256", "template",
     "seed_strategy", "workflow_json_path", "workflow_json_sha256", "workflow_status",
     "comfyui_base_url"}
NumberOrZeroKeys == {"base_seed", "request_timeout_s", "job_timeout_s"}
NullableStringKeys == {"selected_ksampler_node_id", "client_id"}
DescriptorKeys ==
    {"run_id", "created_at", "dry_run", "run_dir", "concurrency"}
    \cup StringOrEmptyKeys \cup NumberOrZeroKeys \cup NullableStringKeys

COMFYUI_API_OUTPUTS ==
    <<"c", "o", "m", "f", "y", "u", "i", "_", "a", "p", "i", "_",
      "o", "u", "t", "p", "u", "t", "s">>

\* The fields of a RunDetail other than the two identity fields.
NormalizedFields(record, runDir) ==
    [k \in DescriptorKeys \ {"run_id", "created_at"} |->
        IF k = "dry_run" THEN record.f[k] = JTrue
        ELSE IF k = "run_dir"
        THEN Coalesce(toNullableString(record.f[k]),
                      Str(PathJoin(<<COMFYUI_API_OUTPUTS, runDir>>)))
        ELSE IF k = "concurrency" THEN Coalesce(toNullableInteger(record.f[k]), Num(0))
        ELSE IF k \in StringOrEmptyKeys THEN toStringOrEmpty(record.f[k])
        ELSE IF k \in NumberOrZeroKeys THEN toNumberOrZero(record.f[k])
        ELSE toNullableString(record.f[k])]

\* normalizeRunDetail as it would be if only a missing identity field failed
\* (=== null in place of the falsy test).
normalizeRunDetailNullOnly(record, runDir) ==
    IF toNullableString(record.f.run_id) = Null
       \/ toNullableString(record.f.created_at) = Null
    THEN Throw("Invalid run.json: missing run_id/created_at")
    ELSE Return([run_id |-> record.f.run_id.s,
                 created_at |-> record.f.created_at.s,
                 f |-> NormalizedFields(record, runDir),
                 selection |-> normalizeSelection(record.selection),
                 generation_overrides |->
                     normalizeGenerationOverrides(record.generation_overrides)])

normalizeRunDetail(record, runDir) ==
    LET runId == toNullableString(record.f.run_id)
        createdAt == toNullableString(record.f.created_at)
    IN \* !runId || !createdAt: null and the empty string are falsy
       IF runId = Null \/ runId.s = <<>> \/ createdAt = Null \/ createdAt.s = <<>>
       THEN Throw("Invalid run.json: missing run_id/created_at")
       ELSE Return([run_id |-> runId.s,
                    created_at |-> createdAt.s,
                    f |-> NormalizedFields(record, runDir),
                    selection |-> normalizeSelection(record.selection),
                    generation_overrides |->
                        normalizeGenerationOverrides(record.generation_overrides)])

\* loadRunDetail after readFile: parseJsonObject, normalizeRunDetail.
loadRunDetail(content, runDir) ==
    LET parsed == parseJsonObject(content)
    IN IF parsed = NoCell THEN Throw("Invalid run.json")
       ELSE normalizeRunDetail(parsed, runDir)

(***************************************************************************)
(* The descriptor loader applied to every modelled content of run.json.    *)
(***************************************************************************)
\* The values of the top-level keys other than the identity fields: all
\* absent, all of the documented type, all of another type.
DescriptorBodies ==
    { [k \in DescriptorKeys |-> Absent],
      [k \in DescriptorKeys |->
          IF k = "dry_run" THEN JTrue
          ELSE IF k = "concurrency" THEN Num(2)
          ELSE IF k \in NumberOrZeroKeys THEN Fraction(1)
          ELSE Str(<<"v">>)],
      [k \in DescriptorKeys |->
          IF k = "dry_run" THEN Str(<<"t", "r", "u", "e">>)
          ELSE IF k = "concurrency" THEN Fraction(1)
          ELSE IF k = "run_dir" THEN Null
          ELSE IF k \in NumberOrZeroKeys THEN Infinity
          ELSE Num(1)] }

RunIdValues == {Absent, Num(1), Str(<<>>), Str(<<"r">>)}
CreatedAtValues == {Null, Str(<<>>), Str(<<"t">>)}

RawIndexLists ==
    { Absent, Arr(<<>>), Arr(<<Num(0), Num(1)>>),
      Arr(<<Num(1), Str(<<"1">>), Fraction(1), Num(1), Null>>),
      Str(<<"0", ",", "1">>) }

RawSelections ==
    { NoObject(SelectionKeys) } \cup
    { [obj |-> TRUE,
       f |-> [k \in SelectionKeys |->
                CASE k = "x_indexes" -> xs
                  [] k = "y_indexes" -> ys
                  [] k = "x_count" -> xc
                  [] k = "y_count" -> yc
                  [] k = "total_cells" -> tc
                  [] k = "x_limit" -> Num(3)
                  [] k = "y_limit" -> Infinity
                  [] k = "x_indexes_raw" -> Str(<<"0", ",", "1">>)
                  [] OTHER -> Num(1)]] :
        xs \in RawIndexLists,
        ys \in {Absent, Arr(<<Num(0)>>)},
        xc \in {Absent, Num(2), Num(5), Fraction(2), Str(<<"2">>)},
        yc \in {Absent, Num(1), Num(0)},
        tc \in {Absent, Num(9)} }

RawOverrides ==
    { NoObject(OverrideKeys),
      [obj |-> TRUE,
       f |-> [k \in OverrideKeys |-> IF k \in OverrideNumberKeys THEN Num(8)
                                     ELSE Str(<<"o">>)]],
      [obj |-> TRUE,
       f |-> [k \in OverrideKeys |-> IF k \in OverrideNumberKeys THEN Str(<<"8">>)
                                     ELSE Null]] }

EmptyDescriptor(kind) ==
    [kind |-> kind, f |-> [k \in DescriptorKeys |-> Absent],
     selection |-> NoObject(SelectionKeys),
     generation_overrides |-> NoObject(OverrideKeys)]

RawDescriptors ==
    { EmptyDescriptor(kind) : kind \in {"garbage", "array", "scalar", "nulllit"} } \cup
    { [kind |-> "object",
       f |-> [k \in DescriptorKeys |->
                IF k = "run_id" THEN id ELSE IF k = "created_at" THEN at ELSE body[k]],
       selection |-> selection,
       generation_overrides |-> overrides] :
        id \in RunIdValues, at \in CreatedAtValues, body \in DescriptorBodies,
        selection \in RawSelections, overrides \in RawOverrides }

InitDescriptor ==
    /\ IngestIdle
    /\ PathIdle
    /\ RequestIdle
    /\ ViewIdle
    /\ raw \in RawDescriptors
    /\ detail = NotCalled
    /\ dpc = "start"

\* const parsed = parseJsonObject(raw) ... return normalizeRunDetail(parsed, runDir)
LoadRunDetail ==
    /\ dpc = "start"
    /\ detail' = loadRunDetail(raw, RunA)
    /\ dpc' = "done"
    /\ UNCHANGED <<raw, gridVars, pathVars, reqVars, viewVars>>

NextDescriptor == LoadRunDetail

SpecDescriptor == InitDescriptor /\ [][NextDescriptor]_vars

(***************************************************************************)
(* components/comfyui/virtual-grid.tsx: the grid widget and its preview    *)
(* dialog, given the GridIndex of a run.                                   *)
(***************************************************************************)
MaxWidgetLines == 2

APng == <<"a", ".", "p", "n", "g">>
BPng == <<"b", ".", "p", "n", "g">>
CPng == <<"c", ".", "p", "n", "g">>

\* A record whose image list repeats a path, and one with a single path
\* beside a list that does not hold it.
BodyRepeat ==
    [BodyFull EXCEPT !.local_image_paths = Arr(<<Str(APng), Str(APng)>>),
                     !.seed = Num(8)]

BodyBoth ==
    [BodyFull EXCEPT !.local_image_path = Str(CPng),
                     !.local_image_paths = Arr(<<Str(APng), Str(BPng)>>),
                     !.seed = Num(9)]

WidgetLines ==
    { ObjLine(Num(0), Num(0), Str(StSuccess), BodyFull),
      ObjLine(Num(1), Num(0), Str(StSuccess), BodyBoth),
      ObjLine(Num(0), Num(0), Str(StSuccess), BodyRepeat),
      ObjLine(Num(1), Num(0), Str(StFailed), BodyLoose),
      ObjLine(Num(0), Num(1), Str(StSuccess), BodyEmpty) }

WidgetSelections ==
    { [x_indexes |-> <<0, 1>>, y_indexes |-> <<0, 1>>],
      [x_indexes |-> <<1, 0>>, y_indexes |-> <<0>>],
      [x_indexes |-> <<1>>, y_indexes |-> <<0, 1>>] }

\* cells[`${xIndex},${yIndex}`] ?? null
getGridCell(cs, xIndex, yIndex) ==
    IF MapHas(cs, toCellKey(xIndex, yIndex)) THEN MapGet(cs, toCellKey(xIndex, yIndex))
    ELSE NoCell

\* cell.local_image_paths.filter((path) => path.length > 0), or []
NonEmptyPaths(v) ==
    IF v.t # "array" THEN <<>>
    ELSE SelectSeq([i \in 1..Len(v.a) |-> v.a[i].s], LAMBDA path : Len(path) > 0)

getCellImagePaths(cell) ==
    LET paths == NonEmptyPaths(cell.local_image_paths)
        hasPath == cell.local_image_path.t = "string" /\ Len(cell.local_image_path.s) > 0
    IN IF hasPath /\ cell.local_image_path.s \notin Range(paths)
       THEN <<cell.local_image_path.s>> \o paths
       ELSE IF Len(paths) > 0 THEN paths
       ELSE IF hasPath THEN <<cell.local_image_path.s>>
       ELSE <<>>

NoPositivePrompt == <<"(", ")">>

\* The number of image paths of the selected cell; none when it is null.
TotalImages == IF selectedCell.none THEN 0 ELSE Len(selectedCell.imagePaths)

showPreviousImage(index) == IF index <= 0 THEN 0 ELSE index - 1

\* The updater of showNextImage as it would be with the bound one too high.
showNextImageOffByOne(selected, index) ==
    IF selected.none \/ index >= Len(selected.imagePaths) THEN index ELSE index + 1

showNextImage(selected, index) ==
    IF selected.none \/ index >= Len(selected.imagePaths) - 1 THEN index ELSE index + 1

InitWidget ==
    /\ PathIdle
    /\ RequestIdle
    /\ DescriptorIdle
    /\ PageIdle
    /\ AppendIdle
    /\ sel \in WidgetSelections
    /\ log \in SeqsUpTo(WidgetLines, MaxWidgetLines)
    /\ pos = Len(log) + 1
    /\ cells = ParseLines(EmptyMap, log)
    /\ grid = buildGridIndex(sel, cells)
    /\ first = NoGrid
    /\ gpc = "shown"
    /\ WidgetIdle

\* onClick of the cell at column xIndex, row yIndex: openCellDialog(cell, ...)
OpenCell ==
    /\ gpc = "shown"
    /\ \E xIndex \in 0..(Len(grid.xLabels) - 1), yIndex \in 0..(Len(grid.yLabels) - 1) :
        /\ ~getGridCell(grid.cells, xIndex, yIndex).none
        /\ getGridCell(grid.cells, xIndex, yIndex).status = StSuccess
        /\ selectedCell' =
             [none |-> FALSE,
              xIndex |-> xIndex,
              yIndex |-> yIndex,
              xLabel |-> grid.xLabels[xIndex + 1],
              yLabel |-> grid.yLabels[yIndex + 1],
              seed |-> getGridCell(grid.cells, xIndex, yIndex).seed,
              positivePrompt |->
                  IF /\ getGridCell(grid.cells, xIndex, yIndex).positive_prompt.t = "string"
                     /\ Trim(getGridCell(grid.cells, xIndex, yIndex).positive_prompt.s) # <<>>
                  THEN getGridCell(grid.cells, xIndex, yIndex).positive_prompt.s
                  ELSE NoPositivePrompt,
              imagePaths |-> getCellImagePaths(getGridCell(grid.cells, xIndex, yIndex))]
    /\ currentImageIndex' = 0
    /\ dialogOpen' = TRUE
    /\ UNCHANGED <<copiedField, copying, gridVars, pathVars, reqVars, descVars, pageVars,
                   appendVars>>

\* onClick of the previous-image button
ShowPreviousImage ==
    /\ dialogOpen
    /\ currentImageIndex' = showPreviousImage(currentImageIndex)
    /\ UNCHANGED <<dialogOpen, selectedCell, copiedField, copying, gridVars, pathVars,
                   reqVars, descVars, pageVars, appendVars>>

\* onClick of the next-image button
ShowNextImage ==
    /\ dialogOpen
    /\ currentImageIndex' = showNextImage(selectedCell, currentImageIndex)
    /\ UNCHANGED <<dialogOpen, selectedCell, copiedField, copying, gridVars, pathVars,
                   reqVars, descVars, pageVars, appendVars>>

\* copyText(field, value) up to its await
CopyText ==
    /\ dialogOpen
    /\ ~selectedCell.none
    /\ \E field \in {"prompt", "seed"} :
        /\ field \notin copying
        /\ field = "seed" => selectedCell.seed.t # "null"
        /\ copying' = copying \cup {field}
    /\ UNCHANGED <<dialogOpen, selectedCell, currentImageIndex, copiedField, gridVars,
                   pathVars, reqVars, descVars, pageVars, appendVars>>

\* navigator.clipboard.writeText settled: setCopiedField(field), or null in
\* the catch.
CopySettled ==
    /\ \E field \in copying, written \in BOOLEAN :
        /\ copying' = copying \ {field}
        /\ copiedField' = IF written THEN field ELSE "none"
    /\ UNCHANGED <<dialogOpen, selectedCell, currentImageIndex, gridVars, pathVars,
                   reqVars, descVars, pageVars, appendVars>>

\* onOpenChange(false), and the effect on dialogOpen that follows the render.
CloseDialog ==
    /\ dialogOpen
    /\ dialogOpen' = FALSE
    /\ copiedField' = "none"
    /\ currentImageIndex' = 0
    /\ UNCHANGED <<selectedCell, copying, gridVars, pathVars, reqVars, descVars,
                   pageVars, appendVars>>

NextWidget ==
    \/ OpenCell
    \/ ShowPreviousImage
    \/ ShowNextImage
    \/ CopyText
    \/ CopySettled
    \/ CloseDialog

SpecWidget == InitWidget /\ [][NextWidget]_vars

(***************************************************************************)
(* comfyui-fs.ts: loadRunGridIndex while the generator appends to           *)
(* metadata.jsonl (SpecAppend).  log holds the lines the generator writes,  *)
(* in order; wrote of them are in the file with their line ends, and        *)
(* partial tells what is in the file of the next one: nothing, a proper     *)
(* prefix of its text ("cut"), or its text without the line end ("whole").  *)
(***************************************************************************)
\* The lines the generator writes: one JSON document each.
AppendLines ==
    { ObjLine(Num(0), Num(0), Str(StSuccess), BodyFull),
      ObjLine(Num(0), Num(0), Str(StFailed), BodyLoose),
      ObjLine(Num(1), Num(0), Str(StSkipped), BodyLoose),
      ScalarLine }

AppendSelections ==
    { [x_indexes |-> <<0, 1>>, y_indexes |-> <<0>>],
      [x_indexes |-> <<1, 0>>, y_indexes |-> <<0, 1>>] }

\* A proper prefix of the text of a JSON document: JSON.parse throws on it.
CutLine(line) == [line EXCEPT !.kind = "garbage"]

\* raw.split(/\r?\n/) of what is in the file.
FileLines ==
    SubSeq(log, 1, wrote) \o
        << CASE partial = "cut" -> CutLine(log[wrote + 1])
             [] partial = "whole" -> log[wrote + 1]
             [] OTHER -> BlankLine >>

InitAppend ==
    /\ PathIdle
    /\ RequestIdle
    /\ DescriptorIdle
    /\ WidgetIdle
    /\ PageIdle
    /\ AppendIdle
    /\ sel \in AppendSelections
    /\ log \in SeqsUpTo(AppendLines, MaxAppendLines)
    /\ pos = 1
    /\ cells = EmptyMap
    /\ grid = NoGrid
    /\ first = NoGrid
    /\ gpc = "detail"

\* The generator: a write that leaves part of the next line in the file.
AppendBegin ==
    /\ wrote < Len(log)
    /\ partial = "none"
    /\ partial' \in {"cut", "whole"}
    /\ UNCHANGED <<wrote, took, gridVars, pathVars, reqVars, descVars, widgetVars,
                   pageVars>>

\* The generator: the next line is in the file with its line end.
AppendEnd ==
    /\ wrote < Len(log)
    /\ wrote' = wrote + 1
    /\ partial' = "none"
    /\ UNCHANGED <<took, gridVars, pathVars, reqVars, descVars, widgetVars, pageVars>>

\* const runDetail = await loadRunDetail(runDir, outputsRoot)
ReadRunJson ==
    /\ gpc = "detail"
    /\ gpc' = "log"
    /\ UNCHANGED <<sel, log, pos, cells, grid, first, pathVars, reqVars, descVars,
                   viewVars>>

\* const cells = await parseMetadataJsonl(runDir, outputsRoot)
ReadMetadata ==
    /\ gpc = "log"
    /\ took' = IF partial = "whole" THEN wrote + 1 ELSE wrote
    /\ pos' = Len(FileLines) + 1
    /\ cells' = ParseLines(EmptyMap, FileLines)
    /\ gpc' = "build"
    /\ UNCHANGED <<sel, log, grid, first, wrote, partial, pathVars, reqVars, descVars,
                   widgetVars, pageVars>>

NextAppend == AppendBegin \/ AppendEnd \/ ReadRunJson \/ ReadMetadata \/ BuildGrid

SpecAppend == InitAppend /\ [][NextAppend]_vars

(***************************************************************************)
(* app/runs/[runDir]/page.tsx: RunDetailPage (SpecPage).  A payload is      *)
(* written as the identifier of the run it describes.  What a fetch ends    *)
(* in: a 200 response whose body passes the type guard ("valid"), fails it  *)
(* ("invalid") or is no JSON ("unparseable"), a 404 or a 500 response, or   *)
(* no response at all ("rejected").  The updates of one continuation are    *)
(* rendered together.                                                       *)
(***************************************************************************)
PageRuns == {"", "a", "b"}

FetchEnds == {"valid", "invalid", "unparseable", "404", "500", "rejected"}

View(state, detail_, grid_) ==
    [loadState |-> state, detailData |-> detail_, gridData |-> grid_]

\* catch (error) { if (AbortError) return; set null, null, "error" }
CatchBlock(error, view) ==
    IF error = "AbortError" THEN view ELSE View("error", "null", "null")

IsOk(end) == end \in {"valid", "invalid", "unparseable"}

\* The continuation of the first await as it would be if the test of ok came
\* before the test of 404.
AfterResponsesOkFirst(f, view) ==
    IF f.detail = "rejected" \/ f.grid = "rejected"
    THEN [pc |-> "done", view |-> CatchBlock("TypeError", view)]
    ELSE IF ~IsOk(f.detail) \/ ~IsOk(f.grid)
    THEN [pc |-> "done", view |-> CatchBlock("Error", view)]
    ELSE IF f.detail = "404" \/ f.grid = "404"
    THEN [pc |-> "done", view |-> View("not-found", "null", "null")]
    ELSE [pc |-> "json", view |-> view]

\* From the first await to the second: Promise.all of the two fetches, the
\* test of 404, the test of ok.
AfterResponses(f, view) ==
    IF f.detail = "rejected" \/ f.grid = "rejected"
    THEN [pc |-> "done", view |-> CatchBlock("TypeError", view)]
    ELSE IF f.detail = "404" \/ f.grid = "404"
    THEN [pc |-> "done", view |-> View("not-found", "null", "null")]
    ELSE IF ~IsOk(f.detail) \/ ~IsOk(f.grid)
    THEN [pc |-> "done", view |-> CatchBlock("Error", view)]
    ELSE [pc |-> "json", view |-> view]

\* From the second await to the end: Promise.all of the two json(), the type
\* guards, the three setters.
AfterPayloads(f, view) ==
    IF f.detail = "unparseable" \/ f.grid = "unparseable"
    THEN CatchBlock("SyntaxError", view)
    ELSE IF f.detail # "valid" THEN CatchBlock("Error", view)
    ELSE IF f.grid # "valid" THEN CatchBlock("Error", view)
    ELSE View("ready", f.runDir, f.runDir)

Now == View(loadState, detailData, gridData)

Show(view) ==
    /\ loadState' = view.loadState
    /\ detailData' = view.detailData
    /\ gridData' = view.gridData

InitPage ==
    /\ PathIdle
    /\ RequestIdle
    /\ DescriptorIdle
    /\ IngestIdle
    /\ WidgetIdle
    /\ AppendIdle
    /\ PageIdle

\* The effect on runDir: the cleanup of the previous run of the effect aborts
\* its controller, then fetchRunDetail runs up to its first await.
RunEffect ==
    /\ fetchOld.pc \in {"none", "done"}
    /\ \E r \in PageRuns :
        /\ r # param \/ fetchNow.pc = "none"
        /\ param' = r
        /\ fetchOld' = IF fetchNow.pc \in {"fetch", "json"}
                       THEN [fetchNow EXCEPT !.aborted = TRUE]
                       ELSE fetchOld
        /\ IF r = ""
           THEN /\ Show(View("not-found", "null", "null"))
                /\ fetchNow' = [NoFetch EXCEPT !.pc = "done"]
           ELSE /\ Show(View("loading", detailData, gridData))
                /\ fetchNow' = [NoFetch EXCEPT !.pc = "fetch", !.runDir = r]
    /\ UNCHANGED <<gridVars, pathVars, reqVars, descVars, widgetVars, appendVars>>

\* One of the two fetches of the current call is fulfilled or rejected.
FetchSettles ==
    /\ fetchNow.pc = "fetch"
    /\ fetchNow.detail # "rejected"
    /\ fetchNow.grid # "rejected"
    /\ \E end \in FetchEnds :
        \/ /\ fetchNow.detail = "pending"
           /\ fetchNow' = [fetchNow EXCEPT !.detail = end]
        \/ /\ fetchNow.grid = "pending"
           /\ fetchNow' = [fetchNow EXCEPT !.grid = end]
    /\ UNCHANGED <<param, loadState, detailData, gridData, fetchOld, gridVars, pathVars,
                   reqVars, descVars, widgetVars, appendVars>>

\* The first await of the current call is over.
ResponsesIn ==
    /\ fetchNow.pc = "fetch"
    /\ \/ "rejected" \in {fetchNow.detail, fetchNow.grid}
       \/ "pending" \notin {fetchNow.detail, fetchNow.grid}
    /\ fetchNow' = [fetchNow EXCEPT !.pc = AfterResponses(fetchNow, Now).pc]
    /\ Show(AfterResponses(fetchNow, Now).view)
    /\ UNCHANGED <<param, fetchOld, gridVars, pathVars, reqVars, descVars, widgetVars,
                   appendVars>>

\* The second await of the current call is over.
PayloadsIn ==
    /\ fetchNow.pc = "json"
    /\ fetchNow' = [fetchNow EXCEPT !.pc = "done"]
    /\ Show(AfterPayloads(fetchNow, Now))
    /\ UNCHANGED <<param, fetchOld, gridVars, pathVars, reqVars, descVars, widgetVars,
                   appendVars>>

\* The await of a call whose controller was aborted: fetch and json() reject
\* with the AbortError of the signal.
AbortedAwait ==
    /\ fetchOld.pc \in {"fetch", "json"}
    /\ fetchOld.aborted
    /\ fetchOld' = [fetchOld EXCEPT !.pc = "done"]
    /\ Show(CatchBlock("AbortError", Now))
    /\ UNCHANGED <<param, fetchNow, gridVars, pathVars, reqVars, descVars, widgetVars,
                   appendVars>>

NextPage == RunEffect \/ FetchSettles \/ ResponsesIn \/ PayloadsIn \/ AbortedAwait

SpecPage == InitPage /\ [][NextPage]_vars

(***************************************************************************)
(* Claims about the grid assembler and the event log reader.               *)
(***************************************************************************)
Done == gpc = "done"

\* The records of the map read from the log that have the coordinate (x, y).
RecordsAt(cs, x, y) ==
    {i \in 1..MapSize(cs) : cs.at[i].x_index = x /\ cs.at[i].y_index = y}

\* The entries of a grid's cell map that have the coordinate (x, y).
IsBareMissing(c, x, y) ==
    /\ c.status = StMissing
    /\ c.x_index = x
    /\ c.y_index = y
    /\ \A k \in XKeys : c.x_fields[k] = Absent
    /\ ~c.generation_params.obj
    /\ \A f \in {"y_value", "positive_prompt", "prompt_hash", "seed", "workflow_hash",
                 "comfyui_prompt_id", "local_image_path", "local_image_paths",
                 "error", "started_at", "finished_at", "elapsed_ms"} : c[f] = Null

\* C1 (as claimed): the cell map of every GridIndex has exactly
\* x_count * y_count entries.  Refuted by a selection that repeats an index.
C1_CellCountIsProduct ==
    Done => MapSize(grid.cells) = grid.x_count * grid.y_count

\* C2: every coordinate of the cross product of the declared index lists has
\* an entry in the grid; it is the parsed record of that coordinate when the
\* record map has one, and otherwise a cell of status missing with that
\* coordinate and every other field null or empty.
C2_EveryDeclaredCoordinateHasItsCell ==
    Done =>
        \A i \in 1..Len(sel.x_indexes), j \in 1..Len(sel.y_indexes) :
            LET x == sel.x_indexes[i]
                y == sel.y_indexes[j]
                entries == RecordsAt(grid.cells, x, y)
                records == RecordsAt(cells, x, y)
            IN /\ Cardinality(entries) = 1
               /\ \A e \in entries :
                    /\ grid.cells.keys[e] = toCellKey(x, y)
                    /\ IF records # {}
                       THEN \A r \in records : grid.cells.at[e] = cells.at[r]
                       ELSE IsBareMissing(grid.cells.at[e], x, y)

\* Scenario A: X = [0, 1], Y = [0], one success line for (0, 0).
C2_Witness ==
    /\ Done
    /\ sel = [x_indexes |-> <<0, 1>>, y_indexes |-> <<0>>]
    /\ log = <<ObjLine(Num(0), Num(0), Str(StSuccess), BodyFull)>>
    /\ MapSize(grid.cells) = 2
    /\ MapGet(grid.cells, toCellKey(0, 0)).status = StSuccess
    /\ MapGet(grid.cells, toCellKey(1, 0)).status = StMissing

\* A line yields a record when it is a JSON object with integer coordinates.
Yields(line) ==
    /\ line.kind = "object"
    /\ line.x_index.t = "int"
    /\ line.y_index.t = "int"

\* The lines among the first n that yield a record of the coordinate (x, y).
LinesAt(n, x, y) ==
    {j \in 1..n : Yields(log[j]) /\ log[j].x_index.n = x /\ log[j].y_index.n = y}

Last(S) == CHOOSE j \in S : \A k \in S : k <= j

\* C3: after any number of lines, the map holds for each coordinate exactly
\* the normalized record of the last line read so far that parses to that
\* coordinate, and nothing for a coordinate no line parses to.
C3_LastWriteWins ==
    gpc \in {"parse", "build", "done"} =>
        LET n == pos - 1
        IN /\ \A i \in 1..MapSize(cells) :
                LET c == cells.at[i]
                    S == LinesAt(n, c.x_index, c.y_index)
                IN /\ S # {}
                   /\ c = normalizeGridCell(log[Last(S)])
                   /\ Cardinality(RecordsAt(cells, c.x_index, c.y_index)) = 1
           /\ \A j \in 1..n :
                Yields(log[j]) =>
                    RecordsAt(cells, log[j].x_index.n, log[j].y_index.n) # {}

\* Two lines of one coordinate with differing status: the later status wins.
C3_Witness ==
    /\ Done
    /\ \E j, k \in 1..Len(log) :
        /\ j < k
        /\ Yields(log[j]) /\ Yields(log[k])
        /\ log[j].x_index = log[k].x_index
        /\ log[j].y_index = log[k].y_index
        /\ normalizeCellStatus(log[j].status) # normalizeCellStatus(log[k].status)
        /\ LinesAt(Len(log), log[k].x_index.n, log[k].y_index.n) = {j, k}
        /\ MapGet(cells, toCellKey(log[k].x_index.n, log[k].y_index.n)).status
             = normalizeCellStatus(log[k].status)

\* A malformed line: blank, not parseable, not an object, or an object that
\* lacks integer coordinates.
Malformed(line) == ~Yields(line)

\* C4: the grid built from a log equals the grid built from the same log
\* with any one malformed line left out.
C4_CorruptionTolerance ==
    Done =>
        \A p \in 1..Len(log) :
            Malformed(log[p]) =>
                grid = buildGridIndex(sel, ParseLines(EmptyMap, RemoveAt(log, p)))

\* A malformed line between two well-formed ones.
C4_Witness ==
    /\ Done
    /\ Len(log) = 3
    /\ Yields(log[1]) /\ Malformed(log[2]) /\ Yields(log[3])
    /\ MapSize(cells) = 2

(***************************************************************************)
(* Claims about the path sanitizer and the root-scoped resolver.           *)
(***************************************************************************)
\* The nine checks of the sanitizer, each on the trimmed candidate c.
FailsCheck(k, c) ==
    CASE k = 1 -> Len(c) = 0
      [] k = 2 -> Includes(c, "NUL")
      [] k = 3 -> Includes(c, "%")
      [] k = 4 -> Includes(c, "\\")
      [] k = 5 -> PosixIsAbsolute(c) \/ Win32IsAbsolute(c)
      [] k = 6 -> MatchesDriveLetterPrefix(c)
      [] k = 7 -> \E seg \in Range(SplitOn(c, {"/"})) : seg = <<>>
      [] k = 8 -> \E seg \in Range(SplitOn(c, {"/"})) : seg \in {<<".">>, DotDot}
      [] k = 9 -> LET n == PosixNormalize(c)
                  IN \/ n = <<".">>
                     \/ StartsWith(n, <<".", ".", "/">>)
                     \/ IncludesSeq(n, <<"/", ".", ".", "/">>)

\* Empty, NullByte, EncodedChars, Backslash, Absolute, DriveLetter,
\* EmptySegment, DotSegment, Escapes.
RejectionMessage ==
    << "imagePath must not be empty",
       "imagePath must not contain null bytes",
       "imagePath must not contain URL-encoded characters",
       "imagePath must not contain backslashes",
       "imagePath must be relative",
       "imagePath must not contain a drive letter",
       "imagePath must not contain empty segments",
       "imagePath must not contain dot segments",
       "imagePath escapes the expected relative scope" >>

FailingChecks(c) == {k \in 1..9 : FailsCheck(k, c)}

\* C5: the sanitizer answers every string; it returns a relative path when
\* all nine checks pass and otherwise the rejection of the first failing
\* check; a string with "%" that is not blank and has no null byte is
\* rejected as EncodedChars.
C5_FirstFailingCheckDecides ==
    ppc \in {"sanitized", "resolved"} =>
        LET c == Trim(relPath)
            failing == FailingChecks(c)
        IN /\ sanitized # NotCalled
           /\ sanitized.ok <=> failing = {}
           /\ sanitized.ok =>
                /\ Len(sanitized.val) > 0
                /\ ~PosixIsAbsolute(sanitized.val)
                /\ ~Win32IsAbsolute(sanitized.val)
           /\ failing # {} =>
                sanitized.err =
                    RejectionMessage[CHOOSE k \in failing : \A m \in failing : k <= m]
           /\ (Includes(relPath, "%") /\ ~Includes(relPath, "NUL")) =>
                sanitized.err = RejectionMessage[3]

\* A string with "%" that also has a dot segment is rejected as EncodedChars.
C5_Witness ==
    /\ ppc = "sanitized"
    /\ Includes(relPath, "%")
    /\ FailsCheck(8, Trim(relPath))
    /\ sanitized.err = RejectionMessage[3]

\* C6: whatever the sanitizer rejects, resolvePathUnderRoot rejects too, for
\* every root.
C6_ResolverRejectsWhatSanitizerRejects ==
    (ppc = "resolved" /\ ~sanitized.ok) => ~resolved.ok

\* A dot-segment path that would resolve inside the root is rejected by the
\* resolver for the sanitizer's reason.
C6_Witness ==
    /\ ppc = "resolved"
    /\ relPath = <<"a", "/", ".">>
    /\ root = <<"/", "R">>
    /\ ~sanitized.ok
    /\ ~resolved.ok
    /\ resolved.err = RejectionMessage[8]

CanonicalRoot == PathResolve(platform, <<Trim(root)>>)

CanonicalTarget == PathResolve(platform, <<resolved.val>>)

\* C7 (as claimed): a returned path equals the canonical root or starts
\* with the canonical root followed by the path separator.  Refuted by a
\* root that is the filesystem root, whose canonical form ends with the
\* separator already.
C7_PrefixedByRootThenSeparator ==
    (ppc = "resolved" /\ resolved.ok) =>
        \/ CanonicalTarget = CanonicalRoot
        \/ StartsWith(CanonicalTarget, CanonicalRoot \o <<PathSep(platform)>>)

\* C7 (amended): a returned path is canonical and equals the canonical root
\* or starts with the canonical root made to end with one path separator.
C7_ReturnedPathIsUnderRoot ==
    (ppc = "resolved" /\ resolved.ok) =>
        LET rootWithSep == IF EndsWith(CanonicalRoot, <<PathSep(platform)>>)
                           THEN CanonicalRoot
                           ELSE CanonicalRoot \o <<PathSep(platform)>>
        IN /\ sanitized.ok
           /\ CanonicalTarget = resolved.val
           /\ \/ CanonicalTarget = CanonicalRoot
              \/ StartsWith(CanonicalTarget, rootWithSep)

\* A two-segment path resolved under a relative root on Windows.
C7_Witness ==
    /\ ppc = "resolved"
    /\ platform = "win32"
    /\ root = <<"r">>
    /\ relPath = <<"a", "/", "a">>
    /\ resolved.ok
    /\ resolved.val = <<"C", ":", "\\", "w", "\\", "r", "\\", "a", "\\", "a">>

(***************************************************************************)
(* The allowlist and the request pipeline (specification Spec).            *)
(***************************************************************************)
\* run- + 8 digits + T + 6 digits + Z
RunIdPattern(s) ==
    /\ Len(s) = 20
    /\ \A i \in 1..20 :
        CASE i \in 1..4 -> s[i] = <<"r", "u", "n", "-">>[i]
          [] i = 13 -> s[i] = "T"
          [] i = 20 -> s[i] = "Z"
          [] OTHER -> \E d \in 0..9 : s[i] = Digit(d)

\* discoverRunDirs has returned its list to the handler.
DiscoverReturned == rpc \notin {"idle", "discover", "stats"} /\ resp.at # "discover"

\* The handler is one of the two that take a run identifier.
TakesIdentifier == req.kind \in {"detail", "image"}

\* The handler is past its call of assertAllowedRunDir.
AllowChecked == TakesIdentifier /\ DiscoverReturned /\ rpc # "allow"

\* assertAllowedRunDir returned instead of throwing.
Accepted == AllowChecked /\ resp.at # "allowlist"

\* Filesystem operations on paths built from the caller's identifier.
RequestOps == {o \in ops : o.from = "request"}

\* C8 (as claimed): the identifier is accepted if and only if the string as
\* sent matches the run-identifier pattern and is in the allowlist.  Refuted
\* by an allowlisted identifier sent with surrounding whitespace.
C8_AcceptedIffStringMatchesAndListed ==
    AllowChecked =>
        (Accepted <=> (RunIdPattern(req.runDir) /\ req.runDir \in Range(allow)))

\* C8 (amended): the identifier is accepted if and only if the string, with
\* surrounding whitespace removed, matches the run-identifier pattern and is
\* in the allowlist; what is accepted is returned without the whitespace and
\* every other string is rejected as not found.
C8_AcceptedIffTrimmedMatchesAndListed ==
    AllowChecked =>
        /\ Accepted <=> (RunIdPattern(Trim(req.runDir)) /\ Trim(req.runDir) \in Range(allow))
        /\ Accepted => safeRunDir = Trim(req.runDir)
        /\ ~Accepted => (rpc = "done" /\ resp.status = 404 /\ safeRunDir = <<>>)

\* An allowlisted identifier sent with a leading space is accepted as the
\* identifier without it.
C8_Witness ==
    /\ Accepted
    /\ req.runDir = <<" ">> \o RunA
    /\ safeRunDir = RunA
    /\ RunB \in Range(allow)

\* The numeric value of a digit character.
DigitValue(c) == CHOOSE d \in 0..9 : Digit(d) = c

\* Identifier a is later than identifier b: at the first place they differ,
\* a has the greater digit.
LaterThan(a, b) ==
    \E k \in 1..Min(Len(a), Len(b)) :
        /\ SubSeq(a, 1, k - 1) = SubSeq(b, 1, k - 1)
        /\ a[k] # b[k]
        /\ DigitValue(a[k]) > DigitValue(b[k])

\* C9: what discoverRunDirs returns is exactly the entries of the storage
\* root that are directories, match the run-identifier pattern and hold a
\* run.json that is a regular file, in strictly descending order; a missing
\* storage root gives the empty list.
C9_DiscoverReturnsDescribedRunsDescending ==
    DiscoverReturned =>
        /\ Range(allow) =
             {n \in EntryNames : /\ fsEntries[n].kind = "dir"
                                 /\ RunIdPattern(n)
                                 /\ fsEntries[n].runJson = "file"}
        /\ \A i, j \in 1..Len(allow) : i < j => LaterThan(allow[i], allow[j])
        /\ fsRoot = "absent" => allow = <<>>

\* Two runs listed most recent first, beside a directory with a descriptor
\* whose name is not a run identifier.
C9_Witness ==
    /\ DiscoverReturned
    /\ allow = <<RunB, RunA>>
    /\ fsEntries[NotesName].kind = "dir"
    /\ fsEntries[NotesName].runJson = "file"

\* C10 (as claimed): a request whose identifier, as sent, is not in the
\* allowlist ends at the allowlist check with no path built from it and no
\* read made for it.  Refuted by an allowlisted identifier sent with
\* surrounding whitespace, which is not in the set and is served.
C10_UnlistedStringFailsAtAllowlist ==
    (TakesIdentifier /\ DiscoverReturned /\ req.runDir \notin Range(allow)) =>
        /\ rpc \in {"allow", "done"}
        /\ rpc = "done" => resp.at = "allowlist"
        /\ built = {}
        /\ RequestOps = {}

\* C10 (amended): in both handlers, a request whose identifier, with
\* surrounding whitespace removed, is not in the allowlist ends as not found
\* at the allowlist check; no path is built from the identifier and no
\* descriptor, log or image is read for it, then or before the check.
C10_UnlistedIdentifierFailsAtAllowlist ==
    /\ (TakesIdentifier /\ DiscoverReturned /\ Trim(req.runDir) \notin Range(allow)) =>
        /\ rpc \in {"allow", "done"}
        /\ rpc = "done" => (resp.at = "allowlist" /\ resp.status = 404)
        /\ built = {}
        /\ RequestOps = {}
    /\ (TakesIdentifier /\ ~AllowChecked) => (built = {} /\ RequestOps = {})

\* An image request for a well-formed identifier that is not among the two
\* allowlisted runs has ended as not found with nothing built or read.
C10_Witness ==
    /\ rpc = "done"
    /\ req.kind = "image"
    /\ req.runDir = RunC
    /\ allow = <<RunB, RunA>>
    /\ resp.status = 404
    /\ resp.body = "Image not found"
    /\ resp.at = "allowlist"
    /\ built = {}
    /\ RequestOps = {}

\* The bodies the two handlers send with an error status.
ErrorBodies ==
    {"Run not found", "Failed to load run detail", "Image not found", "Failed to load image"}

\* C11: a rejection by the allowlist check, the sanitizer or the resolver,
\* and every ENOENT, ends as 404; every error response carries one of four
\* constant strings and never the text of the error; an identifier whose
\* directory has no descriptor ends as 404.
C11_RejectionsAndAbsenceAreNotFound ==
    rpc = "done" =>
        /\ resp.status \in {200, 404, 500}
        /\ resp.at \in {"allowlist", "sanitizer", "resolver"} => resp.status = 404
        /\ resp.error = "ENOENT" => resp.status = 404
        /\ resp.status # 200 => (resp.body \in ErrorBodies /\ resp.body # resp.error)
        /\ ( /\ DiscoverReturned
             /\ RunIdPattern(Trim(req.runDir))
             /\ EntryOf(fsEntries, Trim(req.runDir)).kind = "dir"
             /\ EntryOf(fsEntries, Trim(req.runDir)).runJson = "absent" ) => resp.status = 404

\* The stat of an image of an allowlisted run found nothing: 404.
C11_Witness ==
    /\ rpc = "done"
    /\ req.kind = "image"
    /\ resp.at = "image"
    /\ resp.error = "ENOENT"
    /\ resp.status = 404
    /\ resp.body = "Image not found"

\* The identifier names a run discoverRunDirs would list.
RunExists(id) ==
    /\ id \in EntryNames
    /\ fsEntries[id].kind = "dir"
    /\ RunIdPattern(id)
    /\ fsEntries[id].runJson = "file"

\* The storage is in a state in which discoverRunDirs throws.
DiscoverFails ==
    \/ fsRoot = "error"
    \/ /\ fsRoot = "dir"
       /\ \E n \in EntryNames : /\ fsEntries[n].kind = "dir"
                                /\ RunIdPattern(n)
                                /\ fsEntries[n].runJson = "error"

\* C12: the response of the image handler to a request for a run that does
\* not exist, and to a request for an existing run with a path the sanitizer
\* rejects, is a function of the storage alone: 404 "Image not found" (500
\* "Failed to load image" for both when the allowlist cannot be read), so no
\* two such requests are told apart.
C12_NoSuchRunAndRejectedPathAnswerAlike ==
    ( /\ rpc = "done"
      /\ req.kind = "image"
      /\ \/ ~RunExists(Trim(req.runDir))
         \/ ~assertSafeRelativeImagePath(JoinedImagePath).ok ) =>
        <<resp.status, resp.body>> =
            IF DiscoverFails THEN <<500, "Failed to load image">>
            ELSE <<404, "Image not found">>

\* A traversal path under an existing run is answered as a missing run is.
C12_Witness ==
    /\ rpc = "done"
    /\ req.kind = "image"
    /\ req.runDir = RunA
    /\ RunExists(RunA)
    /\ req.imagePath = <<<<".", ".">>, <<"a">>>>
    /\ resp.at = "sanitizer"
    /\ resp.status = 404
    /\ resp.body = "Image not found"

(***************************************************************************)
(* Status and coordinates of the records read from the log (SpecLog).      *)
(***************************************************************************)
\* C13 (as claimed): no record of the map read from the log has status
\* missing, and every cell of a grid with status missing carries nothing but
\* its coordinate.  Refuted by a log line whose status is the string
\* "missing": normalizeCellStatus keeps it, with the line's data.
C13_MissingIsNeverReadFromStorage ==
    /\ \A i \in 1..MapSize(cells) : cells.at[i].status # StMissing
    /\ Done =>
        \A e \in 1..MapSize(grid.cells) :
            grid.cells.at[e].status = StMissing =>
                IsBareMissing(grid.cells.at[e], grid.cells.at[e].x_index,
                              grid.cells.at[e].y_index)

\* The line the record c of the map was read from: the last line read so
\* far that yields its coordinate.
SourceLine(c) == log[Last(LinesAt(pos - 1, c.x_index, c.y_index))]

\* The status values a log line may carry as they are.
RecognizedStatuses ==
    { <<"s", "u", "c", "c", "e", "s", "s">>, <<"f", "a", "i", "l", "e", "d">>,
      <<"s", "k", "i", "p", "p", "e", "d">>, <<"m", "i", "s", "s", "i", "n", "g">> }

\* C14: a record read from a line whose status is absent, no string, or a
\* string outside the recognized set has status failed.
C14_UnrecognizedStatusBecomesFailed ==
    gpc \in {"parse", "build", "done"} =>
        \A i \in 1..MapSize(cells) :
            LET c == cells.at[i]
                given == SourceLine(c).status
            IN IF given.t = "string" /\ given.s \in RecognizedStatuses
               THEN c.status = given.s
               ELSE c.status = <<"f", "a", "i", "l", "e", "d">>

\* Scenario D: a line with status "bogus" is read as failed; so are a line
\* without status and a line whose status is a number.
C14_Witness ==
    /\ gpc = "done"
    /\ log = << ObjLine(Num(1), Num(0), Str(StBogus), BodyEmpty),
                ObjLine(Num(0), Num(1), Num(1), BodyLoose) >>
    /\ MapSize(cells) = 2
    /\ MapGet(cells, toCellKey(1, 0)).status = StFailed
    /\ MapGet(cells, toCellKey(0, 1)).status = StFailed

(***************************************************************************)
(* The descriptor loader (SpecDescriptor).                                 *)
(***************************************************************************)
\* The raw selection of the descriptor being loaded, as a record of its keys.
GivenSelection ==
    IF raw.selection.obj THEN raw.selection.f ELSE [k \in SelectionKeys |-> Absent]

\* An explicit count is absent or differs from the length n of its list.
AbsentOrInconsistent(count, n) == count.t # "int" \/ count.n # n

\* C15 (as claimed): when the explicit x_count (y_count) of the descriptor is
\* absent or differs from the length of the normalized index list, the
\* normalized count is that length.  Refuted by an explicit integer count
\* that differs from the length: it is kept.
C15_CountsAgreeWithLists ==
    (dpc = "done" /\ detail.ok) =>
        LET selection == detail.val.selection
        IN /\ AbsentOrInconsistent(GivenSelection.x_count, Len(selection.x_indexes))
                => selection.x_count = Len(selection.x_indexes)
           /\ AbsentOrInconsistent(GivenSelection.y_count, Len(selection.y_indexes))
                => selection.y_count = Len(selection.y_indexes)

\* The value is a string of at least one character.
IsNonEmptyString(v) == v.t = "string" /\ Len(v.s) > 0

\* What a top-level key of run.json is read as: the value when it has the
\* documented type, the default of the key otherwise.
ExpectedField(k) ==
    LET given == raw.f[k]
    IN CASE k = "dry_run" -> given.t = "boolean" /\ given.n = 1
         [] k = "run_dir" ->
              IF given.t = "string" THEN given
              ELSE Str(COMFYUI_API_OUTPUTS \o <<"/">> \o RunA)
         [] k = "concurrency" -> IF given.t = "int" THEN given ELSE Num(0)
         [] k \in NumberOrZeroKeys ->
              IF given.t \in {"int", "fraction"} THEN given ELSE Num(0)
         [] k \in StringOrEmptyKeys -> IF given.t = "string" THEN given ELSE Str(<<>>)
         [] OTHER -> IF given.t = "string" THEN given ELSE Null

\* C17: loading fails exactly when the content is no JSON object or run_id or
\* created_at is not a non-empty string; otherwise every other key is read as
\* its value when well typed and as its default when missing or wrongly
\* typed, a selection or overrides value that is no object as all defaults.
C17_OnlyIdentityFieldsFailTheLoad ==
    dpc = "done" =>
        /\ detail.ok <=> ( /\ raw.kind = "object"
                           /\ IsNonEmptyString(raw.f.run_id)
                           /\ IsNonEmptyString(raw.f.created_at) )
        /\ detail.ok =>
            /\ detail.val.run_id = raw.f.run_id.s
            /\ detail.val.created_at = raw.f.created_at.s
            /\ \A k \in DOMAIN detail.val.f : detail.val.f[k] = ExpectedField(k)
            /\ DOMAIN detail.val.f = DescriptorKeys \ {"run_id", "created_at"}
            /\ ~raw.selection.obj =>
                 /\ detail.val.selection.x_indexes = <<>>
                 /\ detail.val.selection.y_indexes = <<>>
                 /\ detail.val.selection.x_count = 0
                 /\ detail.val.selection.total_cells = 0
                 /\ detail.val.selection.x_limit = Null
            /\ \A k \in OverrideKeys :
                 detail.val.generation_overrides[k] \in
                    {Null} \cup (IF raw.generation_overrides.obj
                                 THEN {raw.generation_overrides.f[k]} ELSE {})
            /\ ~raw.generation_overrides.obj =>
                 \A k \in OverrideKeys : detail.val.generation_overrides[k] = Null

\* A descriptor with both identity fields and every other field of a wrong
\* type loads, with the defaults.
C17_Witness ==
    /\ dpc = "done"
    /\ detail.ok
    /\ raw.f.template = Num(1)
    /\ raw.f.base_seed = Infinity
    /\ ~raw.selection.obj
    /\ ~raw.generation_overrides.obj
    /\ detail.val.f.template = Str(<<>>)
    /\ detail.val.f.base_seed = Num(0)
    /\ detail.val.f.client_id = Null
    /\ detail.val.selection.x_indexes = <<>>

(***************************************************************************)
(* Labels of the grid (SpecGrid).                                          *)
(***************************************************************************)
\* The record of the map with x_index = x that has the lowest y_index.
LowestYRecord(cs, x) ==
    LET hits == {i \in 1..MapSize(cs) : cs.at[i].x_index = x}
    IN IF hits = {} THEN NoCell
       ELSE cs.at[CHOOSE i \in hits : \A j \in hits : cs.at[i].y_index <= cs.at[j].y_index]

\* The record of the map with y_index = y that has the lowest x_index.
LowestXRecord(cs, y) ==
    LET hits == {i \in 1..MapSize(cs) : cs.at[i].y_index = y}
    IN IF hits = {} THEN NoCell
       ELSE cs.at[CHOOSE i \in hits : \A j \in hits : cs.at[i].x_index <= cs.at[j].x_index]

\* C16 (as claimed): each X label is derived from the record of its X index
\* with the lowest y_index, each Y label from the record of its Y index with
\* the lowest x_index.  Refuted by a log that lists a higher complementary
\* index first: the labels follow the order of the lines.
C16_LabelsFromLowestComplementaryIndex ==
    Done =>
        /\ \A i \in 1..Len(sel.x_indexes) :
             grid.xLabels[i] =
                formatXLabel(LowestYRecord(cells, sel.x_indexes[i]), sel.x_indexes[i])
        /\ \A i \in 1..Len(sel.y_indexes) :
             grid.yLabels[i] =
                formatYLabel(LowestXRecord(cells, sel.y_indexes[i]), sel.y_indexes[i])

(***************************************************************************)
(* Keys of the record map (SpecLog).                                       *)
(***************************************************************************)
\* The value is a non-negative integer.
IsGridIndex(v) == v.t = "int" /\ v.n >= 0

\* C18 (as claimed): every key of the map read from the log is the pair of
\* the coordinates of its record, both non-negative integers, and a line
\* whose x_index or y_index is absent or no such coordinate leaves no
\* record.  Refuted by a line with a negative integer index: it is stored.
C18_KeysAreNonNegativeCoordinatePairs ==
    gpc \in {"parse", "build", "done"} =>
        /\ \A i \in 1..MapSize(cells) :
             /\ cells.keys[i] = toCellKey(cells.at[i].x_index, cells.at[i].y_index)
             /\ cells.at[i].x_index >= 0
             /\ cells.at[i].y_index >= 0
        /\ \A j \in 1..(pos - 1) :
             (log[j].kind = "object"
                /\ ~(IsGridIndex(log[j].x_index) /\ IsGridIndex(log[j].y_index))) =>
                 \A i \in 1..MapSize(cells) : cells.at[i] # normalizeGridCell(log[j])

(***************************************************************************)
(* Storage failures of the three handlers, and the absent log (Spec).      *)
(***************************************************************************)
\* The errno values of a read that failed for another reason than absence.
IoFailures == {"EACCES", "EIO", "EISDIR"}

GenericFailures == {"Failed to load run detail", "Failed to load image"}

\* The request met a storage failure: the error its handler caught, or a
\* descriptor the listing could not read.
StorageFailed ==
    \/ resp.error \in IoFailures
    \/ /\ req.kind = "list"
       /\ \E i \in 1..Len(allow) :
              ReadDescriptor(EntryOf(fsEntries, allow[i])) \in IoFailures

\* C19 (as claimed): in the listing, the detail and the image handler, a
\* request that met an I/O failure other than "not found" while reading the
\* storage root, a descriptor or the log ends with status 500 and a fixed
\* message, never with a not-found answer or a successful (possibly empty)
\* result.
C19_StorageFailuresAreGenericFailures ==
    (rpc = "done" /\ StorageFailed) =>
        /\ resp.status = 500
        /\ resp.body \in GenericFailures

\* C20: when metadata.jsonl does not exist the read yields the empty map and
\* no error, so the run detail is answered and every declared cell of its
\* grid is missing; when the read fails for another reason the error is
\* propagated: the handler answers the generic failure at the log, and no
\* map and no grid are produced.
C20_AbsentLogIsEmptyOtherFailuresPropagate ==
    (req.kind = "detail" /\ rpc \in {"respond", "done"}
        /\ resp.at \in {"", "log", "respond"}) =>
        /\ (EntryOf(fsEntries, safeRunDir).log = "absent") =>
               /\ parseMetadataJsonl(Errno("ENOENT")) = Return(EmptyMap)
               /\ cells = EmptyMap
               /\ resp.error = "none"
               /\ (rpc = "done") =>
                      /\ resp.status = 200
                      /\ grid.built
                      /\ MapSize(grid.cells) = Len(sel.x_indexes) * Len(sel.y_indexes)
                      /\ \A i \in 1..MapSize(grid.cells) :
                             grid.cells.at[i].status = StMissing
        /\ (EntryOf(fsEntries, safeRunDir).log = "error") =>
               /\ rpc = "done"
               /\ resp.at = "log"
               /\ resp.error = "EIO"
               /\ resp.status = 500
               /\ resp.body = "Failed to load run detail"
               /\ grid = NoGrid

\* A run whose log is absent is answered with a grid of two missing cells.
C20_Witness ==
    /\ rpc = "done"
    /\ req.kind = "detail"
    /\ EntryOf(fsEntries, safeRunDir).log = "absent"
    /\ resp.status = 200
    /\ sel = StoredSelection
    /\ cells = EmptyMap
    /\ MapSize(grid.cells) = 2
    /\ MapGet(grid.cells, toCellKey(0, 0)).status = StMissing
    /\ MapGet(grid.cells, toCellKey(1, 0)).status = StMissing

\* A run whose log cannot be read is answered with the generic failure.
C20_FailedRead ==
    /\ rpc = "done"
    /\ req.kind = "detail"
    /\ EntryOf(fsEntries, safeRunDir).log = "error"
    /\ resp.at = "log"
    /\ resp.status = 500

(***************************************************************************)
(* The comparison policy of the resolver and the last check of the         *)
(* sanitizer (SpecPath).                                                   *)
(***************************************************************************)
\* Lines 80-88 of resolvePathUnderRoot for a canonical root and a canonical
\* target, with the comparison case-folded or not: TRUE when the target is
\* accepted.
Confined(plat, folded, resolvedRoot, resolvedTarget) ==
    LET policy == IF folded THEN "win32" ELSE "linux"
        comparableRoot == toComparablePath(policy, resolvedRoot)
        comparableTarget == toComparablePath(policy, resolvedTarget)
        rootWithSep == IF EndsWith(comparableRoot, <<PathSep(plat)>>) THEN comparableRoot
                       ELSE comparableRoot \o <<PathSep(plat)>>
    IN comparableTarget = comparableRoot \/ StartsWith(comparableTarget, rootWithSep)

OtherPlatform == IF platform = "win32" THEN "linux" ELSE "win32"

\* C21: for every root and relative path, the resolver accepts on one
\* platform exactly when it accepts on the other, and for an accepted or
\* rejected pair the prefix comparison gives the same answer case-folded and
\* case-sensitive.
C21_DecisionIndependentOfComparisonPolicy ==
    ppc = "resolved" =>
        /\ resolved.ok = resolvePathUnderRoot(OtherPlatform, root, relPath).ok
        /\ (Trim(root) # <<>> /\ sanitized.ok) =>
               /\ Confined(platform, TRUE, CanonicalRoot,
                           PathResolve(platform, <<CanonicalRoot, sanitized.val>>))
                    = Confined(platform, FALSE, CanonicalRoot,
                               PathResolve(platform, <<CanonicalRoot, sanitized.val>>))
               /\ resolved.ok = Confined(platform, platform = "win32", CanonicalRoot,
                                         PathResolve(platform, <<CanonicalRoot, sanitized.val>>))

\* A path resolved under an upper-case root on Windows, where the comparison
\* is case-folded.
C21_Witness ==
    /\ ppc = "resolved"
    /\ platform = "win32"
    /\ root = <<"C", ":", "\\", "R">>
    /\ relPath = <<"a">>
    /\ resolved.ok
    /\ resolved.val = <<"C", ":", "\\", "R", "\\", "a">>
    /\ toComparablePath(platform, resolved.val) # resolved.val

\* C30: the escape check of the sanitizer decides for no input; an input
\* that passes the eight checks before it is left unchanged by
\* normalization, the sanitizer returns the trimmed input, and the sanitizer
\* applied to what it returned returns it again.
C30_EscapesCheckNeverDecides ==
    ppc \in {"sanitized", "resolved"} =>
        /\ sanitized.err # RejectionMessage[9]
        /\ (FailingChecks(Trim(relPath)) \cap 1..8 = {}) =>
               /\ PosixNormalize(Trim(relPath)) = Trim(relPath)
               /\ sanitized = Return(Trim(relPath))
               /\ assertSafeRelativeImagePath(sanitized.val) = sanitized

\* A padded two-character path is returned trimmed.
C30_Witness ==
    /\ ppc = "sanitized"
    /\ relPath = <<" ", "a", "a">>
    /\ FailingChecks(Trim(relPath)) = {}
    /\ sanitized = Return(<<"a", "a">>)

DescribedRuns(tree) ==
    SortRunDirs(SelectSeq(<<RunA, RunB>>,
                          LAMBDA n : /\ tree[n].kind = "dir"
                                     /\ tree[n].runJson = "file"))

\* C23: the check of every candidate is started before any of them has
\* completed, the checks complete in any order, and the list returned is the
\* one the storage tree determines, whatever the order of completion (and of
\* the directory listing) was.
C23_ListIndependentOfCompletionOrder ==
    /\ rpc = "stats" =>
           /\ \A i \in 1..Len(dirents) :
                  Op("stat", PathJoin(<<DEFAULT_COMFYUI_OUTPUTS_ROOT, dirents[i],
                                        RUN_JSON_FILENAME>>), "entry") \in ops
           /\ Range(settled) = {dirents[i] : i \in {j \in 1..Len(dirents) :
                                                       statRes[j] # "pending"}}
    /\ (DiscoverReturned /\ fsRoot = "dir") =>
           /\ Range(settled) = Range(dirents)
           /\ allow = DescribedRuns(fsEntries)

\* The check of the later-listed candidate completed first, and the list is
\* the sorted one.
C23_Witness ==
    /\ DiscoverReturned
    /\ dirents = <<RunB, RunA>>
    /\ settled = <<RunA, RunB>>
    /\ allow = <<RunB, RunA>>

(***************************************************************************)
(* The grid widget and its preview dialog (SpecWidget).                    *)
(***************************************************************************)
\* The GridIndex cell recorded for the coordinate declared at column i, row
\* j (both counted from 0).
DeclaredCell(i, j) ==
    MapGet(grid.cells, toCellKey(sel.x_indexes[i + 1], sel.y_indexes[j + 1]))

\* C24 (as claimed): for every declared selection, the cell the widget shows
\* at column i, row j, and opens in the dialog, is the GridIndex cell of the
\* coordinate (x_indexes[i], y_indexes[j]), whose labels are xLabels[i] and
\* yLabels[j].
C24_ShownCellIsTheDeclaredCoordinate ==
    gpc = "shown" =>
        /\ \A i \in 0..(Len(sel.x_indexes) - 1), j \in 0..(Len(sel.y_indexes) - 1) :
               getGridCell(grid.cells, i, j) = DeclaredCell(i, j)
        /\ ~selectedCell.none =>
               /\ selectedCell.xLabel = grid.xLabels[selectedCell.xIndex + 1]
               /\ selectedCell.yLabel = grid.yLabels[selectedCell.yIndex + 1]
               /\ selectedCell.seed =
                      DeclaredCell(selectedCell.xIndex, selectedCell.yIndex).seed

\* The non-empty strings among the two image fields of a cell.
StoredImagePaths(cell) ==
    Range(NonEmptyPaths(cell.local_image_paths))
        \cup (IF cell.local_image_path.t = "string" /\ cell.local_image_path.s # <<>>
              THEN {cell.local_image_path.s} ELSE {})

\* C28 (as claimed): the image paths the dialog iterates for the opened cell
\* are the non-empty paths of local_image_paths and local_image_path, with no
\* empty string and no path twice.
C28_ImagePathsHaveNoBlankAndNoRepeat ==
    ~selectedCell.none =>
        LET paths == selectedCell.imagePaths
        IN /\ Range(paths) =
                StoredImagePaths(getGridCell(grid.cells, selectedCell.xIndex,
                                             selectedCell.yIndex))
           /\ <<>> \notin Range(paths)
           /\ \A a, b \in 1..Len(paths) : a # b => paths[a] # paths[b]

\* The highest image index the dialog may show.
LastImageIndex == IF TotalImages = 0 THEN 0 ELSE TotalImages - 1

\* C29: the image index is always between 0 and the last index of the
\* selected cell's paths (0 when there are none); previous at 0 and next at
\* the last index leave it unchanged; opening a cell sets it to 0; closing
\* the dialog sets it to 0 and clears the copied-field marker.
C29_ImageIndexStaysInRange ==
    /\ [](currentImageIndex \in 0..LastImageIndex)
    /\ [][/\ (ShowPreviousImage /\ currentImageIndex = 0) => currentImageIndex' = 0
          /\ (ShowNextImage /\ currentImageIndex = LastImageIndex)
                 => currentImageIndex' = currentImageIndex
          /\ OpenCell => currentImageIndex' = 0
          /\ CloseDialog => (currentImageIndex' = 0 /\ copiedField' = "none")]_vars

\* The last of three images is shown and a field has been copied.
C29_Witness ==
    /\ dialogOpen
    /\ TotalImages = 3
    /\ currentImageIndex = 2
    /\ copiedField = "prompt"

(***************************************************************************)
(* A run removed between enumeration and read (SpecRace).                  *)
(***************************************************************************)
\* The requested run was listed and then removed, whole or its descriptor.
RequestedRunRemoved ==
    \E o \in ops : o.from = "remover" /\ o.path = Trim(req.runDir)

\* C25: when the descriptor or the directory of the requested run is removed
\* after discoverRunDirs listed it and before the handler read the
\* descriptor, the run-detail request ends as not found (404), not as a
\* generic failure and not as a success; no log is read and no grid built.
C25_RemovedAfterListingIsNotFound ==
    (req.kind = "detail" /\ RequestedRunRemoved) =>
        /\ rpc \in {"allow", "loadDetail", "done"}
        /\ rpc = "done" =>
               /\ resp.status = 404
               /\ resp.body = "Run not found"
               /\ resp.error \in {"ENOENT", "runDir is not in allowlist"}
        /\ grid = NoGrid
        /\ cells = EmptyMap

\* The descriptor of a listed, valid run was removed after the allowlist
\* check passed, and its read failed as not found.
C25_Witness ==
    /\ req.kind = "detail"
    /\ req.runDir = RunA
    /\ Op("unlink", RunA, "remover") \in ops
    /\ safeRunDir = RunA
    /\ rpc = "done"
    /\ resp.at = "descriptor"
    /\ resp.error = "ENOENT"
    /\ resp.status = 404

(***************************************************************************)
(* loadRunGridIndex under a concurrent appender (SpecAppend).              *)
(***************************************************************************)
\* C26: while the generator appends to the event log, the GridIndex a
\* request returns is the grid of the first took complete lines of the
\* generator, took being the number of lines whose whole text was in the file
\* when it was read; a line in the file only in part contributes nothing, and
\* every declared coordinate has an entry.
C26_GridIsTheGridOfAPrefix ==
    gpc \in {"build", "done"} =>
        /\ took \in 0..Len(log)
        /\ cells = ParseLines(EmptyMap, SubSeq(log, 1, took))
        /\ gpc = "done" =>
            /\ grid = buildGridIndex(sel, ParseLines(EmptyMap, SubSeq(log, 1, took)))
            /\ \E k \in 0..Len(log) :
                 grid = buildGridIndex(sel, ParseLines(EmptyMap, SubSeq(log, 1, k)))
            /\ \A i \in 1..Len(sel.x_indexes), j \in 1..Len(sel.y_indexes) :
                 MapHas(grid.cells, toCellKey(sel.x_indexes[i], sel.y_indexes[j]))

\* The log was read while the second line was in the file in part: the grid
\* has the record of the first line and a placeholder for the other
\* coordinate, and the generator has finished since.
C26_Witness ==
    /\ gpc = "done"
    /\ sel = [x_indexes |-> <<0, 1>>, y_indexes |-> <<0>>]
    /\ log = <<ObjLine(Num(0), Num(0), Str(StSuccess), BodyFull),
               ObjLine(Num(1), Num(0), Str(StSkipped), BodyLoose)>>
    /\ pos = 3
    /\ took = 1
    /\ wrote = 2
    /\ MapGet(grid.cells, toCellKey(0, 0)).status = StSuccess
    /\ MapGet(grid.cells, toCellKey(1, 0)).status = StMissing

(***************************************************************************)
(* The load state of the run-detail page (SpecPage).                       *)
(***************************************************************************)
\* Both fetches of the current call were fulfilled with a response.
BothResponded ==
    /\ fetchNow.detail \notin {"pending", "rejected"}
    /\ fetchNow.grid \notin {"pending", "rejected"}

\* The state the page is in once the current call is over.
StateOf(f) ==
    IF f.runDir = "" THEN "not-found"
    ELSE IF "rejected" \in {f.detail, f.grid} THEN "error"
    ELSE IF "404" \in {f.detail, f.grid} THEN "not-found"
    ELSE IF f.detail = "valid" /\ f.grid = "valid" THEN "ready"
    ELSE "error"

C27_StatesOfThePage ==
    /\ loadState \in {"loading", "ready", "not-found", "error"}
    /\ loadState = "ready" => (detailData # "null" /\ gridData # "null")
    /\ loadState \in {"not-found", "error"} => (detailData = "null" /\ gridData = "null")
    /\ fetchNow.pc \in {"fetch", "json"} => loadState = "loading"
    /\ fetchNow.pc = "done" =>
        /\ loadState \in {"ready", "not-found", "error"}
        /\ loadState = StateOf(fetchNow)
        /\ (BothResponded /\ "404" \in {fetchNow.detail, fetchNow.grid}) =>
               loadState = "not-found"

\* A step of a call whose controller was aborted.
StepOfAborted == fetchOld.aborted /\ fetchOld' # fetchOld /\ fetchNow' = fetchNow

C27_StepsOfThePage ==
    /\ StepOfAborted =>
           (loadState' = loadState /\ detailData' = detailData /\ gridData' = gridData)
    /\ (fetchNow.pc \in {"fetch", "json"} /\ fetchNow'.pc = "done" /\ param' = param) =>
           (loadState = "loading" /\ loadState' \in {"ready", "not-found", "error"})

\* C27: starting from loading, each call of fetchRunDetail that is not
\* aborted ends in exactly one of ready, not-found and error; when both
\* fetches are answered and either answer has status 404 the state is
\* not-found, whatever the other answer is; ready implies that detail data and
\* grid data are present, not-found and error imply that both are null; a
\* call whose controller was aborted changes no state.
C27_LoadStateFollowsTheFetch ==
    []C27_StatesOfThePage /\ [][C27_StepsOfThePage]_vars

\* The call for one run is aborted when the page is sent to run "b"; the
\* aborted call has ended, and the call for "b", whose detail answer is 404
\* and whose grid answer is 500, has ended in not-found with both data null.
C27_Witness ==
    /\ param = "b"
    /\ fetchNow.pc = "done"
    /\ fetchNow.detail = "404"
    /\ fetchNow.grid = "500"
    /\ fetchOld.aborted
    /\ fetchOld.pc = "done"
    /\ loadState = "not-found"
    /\ detailData = "null"
    /\ gridData = "null"

====
